---- MODULE Spec2Model ----
(***************************************************************************)
(* Model of the gamepad-to-keystroke mapper: one GamepadDevice (device     *)
(* lifecycle: Initialize / ProcessInput / TryToReconnect / Shutdown) and   *)
(* its InputProcessor (edge detection on buttons, hat and left stick, and  *)
(* key-sequence injection through SendInput).                              *)
(***************************************************************************)
EXTENDS Integers, Sequences, FiniteSets, TLC

(***************************************************************************)
(* Bounds of the model.                                                    *)
(***************************************************************************)
\* Number of button indices the model scans (the code scans 128).
NumButtons == 2

ButtonIdx == 0 .. (NumButtons - 1)

\* Number of distinct device instance GUIDs the platform can enumerate.
MaxDevices == 2

Guids == 1 .. MaxDevices

(***************************************************************************)
(* Program constants.                                                      *)
(***************************************************************************)
AX_LEFT == 0
AX_RIGHT == 1
AX_UP == 2
AX_DOWN == 3
\* The DWORD 0xFFFFFFFF (hat centred), written as the 32-bit value -1
POV_CENTERED == -1
KEYEVENTF_KEYUP == 2
AXIS_THRESHOLD_DEFAULT == 400
SCAN_INTERVAL_MS == 5000

AxisDirection == {AX_LEFT, AX_RIGHT, AX_UP, AX_DOWN}

\* Virtual-key codes of the key table
VK_TAB == 9
VK_CONTROL == 17
VK_MENU == 18
VK_LEFT == 37
VK_UP == 38
VK_RIGHT == 39
VK_DOWN == 40
VK_DELETE == 46
VK_LWIN == 91
VK_BACK == 8
VK_RETURN == 13
VK_SHIFT == 16
VK_ESCAPE == 27
VK_SPACE == 32
VK_SNAPSHOT == 44
VK_RWIN == 92
VK_F1 == 112

(***************************************************************************)
(* HRESULTs of the platform calls.                                         *)
(***************************************************************************)
HResults == {"S_OK", "DIERR_INPUTLOST", "DIERR_NOTACQUIRED", "DIERR_UNPLUGGED", "E_FAIL"}

SUCCEEDED(hr) == hr = "S_OK"

FAILED(hr) == hr # "S_OK"

\* Results the model draws for calls whose failure class the code ignores.
OkOrFail == {"S_OK", "E_FAIL"}

\* Results the model draws for Poll.
PollResults == {"S_OK", "DIERR_NOTACQUIRED"}

\* Results the model draws for Acquire.
AcquireResults == {"S_OK", "DIERR_INPUTLOST", "DIERR_NOTACQUIRED", "E_FAIL"}

(***************************************************************************)
(* Raw samples (DIJOYSTATE2): the fields the mapper reads.                 *)
(***************************************************************************)
\* Hat: centred, up
PovValues == {POV_CENTERED, 0}

\* Left stick: X centred, Y centred or full up
XValues == {0}

YValues == {-1000, 0}

Samples == [rgbButtons : [ButtonIdx -> BOOLEAN], pov : PovValues, lX : XValues, lY : YValues]

\* m_currentState{} : value-initialised DIJOYSTATE2
ZeroState == [rgbButtons |-> [i \in ButtonIdx |-> FALSE], pov |-> 0, lX |-> 0, lY |-> 0]

(***************************************************************************)
(* Key mappings (ConfigManager after compileKeyMappings).                  *)
(***************************************************************************)
NoConfig == [none |-> TRUE]

\* createDefaultConfig, compiled
DefaultConfig ==
    [buttons |-> (0 :> <<90>>) @@ (1 :> <<88>>) @@ (2 :> <<67>>) @@ (3 :> <<86>>)
                 @@ (5 :> <<VK_LWIN>>) @@ (7 :> <<VK_MENU, VK_TAB>>),
     dpad |-> (AX_UP :> <<VK_UP>>) @@ (AX_DOWN :> <<VK_DOWN>>)
              @@ (AX_LEFT :> <<VK_LEFT>>) @@ (AX_RIGHT :> <<VK_RIGHT>>),
     stick |-> (AX_LEFT :> <<65>>) @@ (AX_RIGHT :> <<68>>)
               @@ (AX_UP :> <<87>>) @@ (AX_DOWN :> <<83>>),
     stick_threshold |-> AXIS_THRESHOLD_DEFAULT]

\* A configuration file with chords, an unmapped button 1, an unmapped dpad
\* direction and two unmapped stick directions
ChordConfig ==
    [buttons |-> (0 :> <<VK_CONTROL, VK_MENU, VK_DELETE>>) @@ (2 :> <<VK_CONTROL, 67>>),
     dpad |-> (AX_UP :> <<VK_CONTROL, VK_UP>>) @@ (AX_DOWN :> <<VK_DOWN>>)
              @@ (AX_LEFT :> <<VK_LEFT>>) @@ (AX_RIGHT :> <<>>),
     stick |-> (AX_LEFT :> <<65>>) @@ (AX_RIGHT :> <<VK_MENU, 68>>)
               @@ (AX_UP :> <<>>) @@ (AX_DOWN :> <<>>),
     stick_threshold |-> 999]

\* The configurations a load() can produce in the model
FileConfigs == {ChordConfig}

\* A configuration file that maps only the left stick, with the threshold at
\* the end of the axis range
StickOnlyConfig ==
    [buttons |-> <<>>,
     dpad |-> (AX_UP :> <<>>) @@ (AX_DOWN :> <<>>) @@ (AX_LEFT :> <<>>) @@ (AX_RIGHT :> <<>>),
     stick |-> (AX_LEFT :> <<65>>) @@ (AX_RIGHT :> <<68>>)
               @@ (AX_UP :> <<87>>) @@ (AX_DOWN :> <<83>>),
     stick_threshold |-> 1000]

getButtonKeys(cfg, buttonIndex) ==
    IF buttonIndex \in DOMAIN cfg.buttons THEN cfg.buttons[buttonIndex] ELSE <<>>

getDpadKeys(cfg, direction) ==
    IF direction \in DOMAIN cfg.dpad THEN cfg.dpad[direction] ELSE <<>>

getStickKeys(cfg, direction) ==
    IF direction \in DOMAIN cfg.stick THEN cfg.stick[direction] ELSE <<>>

getStickThreshold(cfg) == cfg.stick_threshold

(***************************************************************************)
(* InputProcessor: key injection.                                          *)
(* An injection is one SendInput call: the INPUT array it passes, tagged   *)
(* with the logical input (kind, index) whose transition caused it.        *)
(***************************************************************************)
\* Variant: the release loop indexes vks[i] like the press loop
CreateKeyInputSequence_ReleaseInOrder(vks, down) ==
    [i \in 1 .. Len(vks) |-> [wVk |-> vks[i],
                              dwFlags |-> IF down THEN 0 ELSE KEYEVENTF_KEYUP]]

CreateKeyInputSequence(vks, down) ==
    LET n == Len(vks) IN
    IF down
    THEN [i \in 1 .. n |-> [wVk |-> vks[i], dwFlags |-> 0]]
    ELSE [i \in 1 .. n |-> [wVk |-> vks[n + 1 - i], dwFlags |-> KEYEVENTF_KEYUP]]

SendInputSequence(log, kind, index, down, inputs) ==
    IF inputs # <<>>
    THEN Append(log, [kind |-> kind, index |-> index, down |-> down, inputs |-> inputs])
    ELSE log

SendVirtualKeySequence(log, kind, index, vks, down) ==
    IF vks = <<>>
    THEN log
    ELSE SendInputSequence(log, kind, index, down, CreateKeyInputSequence(vks, down))

(***************************************************************************)
(* InputProcessor: edge detection.  st is the processor's state while a    *)
(* frame is processed: [prevButtons, prevPOV, prevAxisDown, log].          *)
(***************************************************************************)
ProcessButtonInternal(st, cfg, buttonIndex, pressed) ==
    [st EXCEPT !.log = SendVirtualKeySequence(st.log, "Button", buttonIndex,
                                              getButtonKeys(cfg, buttonIndex), pressed)]

\* Variant: the stored bit is not updated after the transition
ButtonStep_NoStore(st, cfg, i, pressed) ==
    IF pressed # st.prevButtons[i]
    THEN ProcessButtonInternal(st, cfg, i, pressed)
    ELSE st

\* "if (pressed != m_prevButtons[i]) { ProcessButtonInternal; m_prevButtons[i] = pressed; }"
ButtonStep(st, cfg, i, pressed) ==
    IF pressed # st.prevButtons[i]
    THEN [ProcessButtonInternal(st, cfg, i, pressed) EXCEPT !.prevButtons[i] = pressed]
    ELSE st

RECURSIVE ProcessButtonsFrom(_, _, _, _)
ProcessButtonsFrom(i, js, cfg, st) ==
    IF i >= NumButtons
    THEN st
    ELSE LET vks == getButtonKeys(cfg, i)
             pressed == js.rgbButtons[i]
         IN  IF vks = <<>>
             THEN ProcessButtonsFrom(i + 1, js, cfg, st)
             ELSE ProcessButtonsFrom(i + 1, js, cfg, ButtonStep(st, cfg, i, pressed))

ProcessButtons(js, cfg, st) == ProcessButtonsFrom(0, js, cfg, st)

ProcessPOVDirection(st, cfg, direction, active) ==
    LET vks == getDpadKeys(cfg, direction) IN
    IF vks # <<>>
    THEN [st EXCEPT !.log = SendVirtualKeySequence(st.log, "POV", direction, vks, active)]
    ELSE st

\* Variant: the centred value is not tested before the wedges
POVActive_NoSentinelCheck(pov, direction) ==
    CASE direction = AX_UP -> (pov <= 4500 \/ pov >= 31500)
      [] direction = AX_RIGHT -> (pov >= 4500 /\ pov <= 13500)
      [] direction = AX_DOWN -> (pov >= 13500 /\ pov <= 22500)
      [] direction = AX_LEFT -> (pov >= 22500 /\ pov <= 31500)

\* Variant: each wedge excludes its upper bound
POVActive_HalfOpen(pov, direction) ==
    /\ pov # POV_CENTERED
    /\ CASE direction = AX_UP -> (pov < 4500 \/ pov >= 31500)
         [] direction = AX_RIGHT -> (pov >= 4500 /\ pov < 13500)
         [] direction = AX_DOWN -> (pov >= 13500 /\ pov < 22500)
         [] direction = AX_LEFT -> (pov >= 22500 /\ pov < 31500)

\* The four booleans ProcessPOV derives from the hat angle
POVActive(pov, direction) ==
    /\ pov # POV_CENTERED
    /\ CASE direction = AX_UP -> (pov <= 4500 \/ pov >= 31500)
         [] direction = AX_RIGHT -> (pov >= 4500 /\ pov <= 13500)
         [] direction = AX_DOWN -> (pov >= 13500 /\ pov <= 22500)
         [] direction = AX_LEFT -> (pov >= 22500 /\ pov <= 31500)

\* One "if (dir != m_prevAxisDown[d]) { ProcessPOVDirection; m_prevAxisDown[d] = dir; }"
POVStep(st, cfg, direction, active) ==
    IF active # st.prevAxisDown[direction]
    THEN [ProcessPOVDirection(st, cfg, direction, active)
             EXCEPT !.prevAxisDown[direction] = active]
    ELSE st

ProcessPOV(js, cfg, st) ==
    [POVStep(
       POVStep(
         POVStep(
           POVStep(st, cfg, AX_UP, POVActive(js.pov, AX_UP)),
           cfg, AX_DOWN, POVActive(js.pov, AX_DOWN)),
         cfg, AX_LEFT, POVActive(js.pov, AX_LEFT)),
       cfg, AX_RIGHT, POVActive(js.pov, AX_RIGHT))
     EXCEPT !.prevPOV = js.pov]

ProcessAxisDirection(st, cfg, direction, active) ==
    LET vks == getStickKeys(cfg, direction) IN
    IF vks # <<>>
    THEN [st EXCEPT !.log = SendVirtualKeySequence(st.log, "Axis", direction, vks, active)]
    ELSE st

\* Variant: the comparisons include the threshold
StickActive_Inclusive(js, threshold, direction) ==
    CASE direction = AX_LEFT -> js.lX <= -threshold
      [] direction = AX_RIGHT -> js.lX >= threshold
      [] direction = AX_UP -> js.lY <= -threshold
      [] direction = AX_DOWN -> js.lY >= threshold

\* The four booleans ProcessAnalogSticks derives from lX / lY
StickActive(js, threshold, direction) ==
    CASE direction = AX_LEFT -> js.lX < -threshold
      [] direction = AX_RIGHT -> js.lX > threshold
      [] direction = AX_UP -> js.lY < -threshold
      [] direction = AX_DOWN -> js.lY > threshold

\* One "if (stickDir != m_prevAxisDown[d]) { ProcessAxisDirection; m_prevAxisDown[d] = stickDir; }"
AxisStep(st, cfg, direction, active) ==
    IF active # st.prevAxisDown[direction]
    THEN [ProcessAxisDirection(st, cfg, direction, active)
             EXCEPT !.prevAxisDown[direction] = active]
    ELSE st

\* Variant: the stick directions are tested in the order of the hat directions
ProcessAnalogSticks_HatOrder(js, cfg, st) ==
    AxisStep(
      AxisStep(
        AxisStep(
          AxisStep(st, cfg, AX_UP, StickActive(js, getStickThreshold(cfg), AX_UP)),
          cfg, AX_DOWN, StickActive(js, getStickThreshold(cfg), AX_DOWN)),
        cfg, AX_LEFT, StickActive(js, getStickThreshold(cfg), AX_LEFT)),
      cfg, AX_RIGHT, StickActive(js, getStickThreshold(cfg), AX_RIGHT))

ProcessAnalogSticks(js, cfg, st) ==
    AxisStep(
      AxisStep(
        AxisStep(
          AxisStep(st, cfg, AX_LEFT, StickActive(js, getStickThreshold(cfg), AX_LEFT)),
          cfg, AX_RIGHT, StickActive(js, getStickThreshold(cfg), AX_RIGHT)),
        cfg, AX_UP, StickActive(js, getStickThreshold(cfg), AX_UP)),
      cfg, AX_DOWN, StickActive(js, getStickThreshold(cfg), AX_DOWN))

\* Variant: the hat is processed before the buttons
ProcessGamepadInput_HatFirst(js, cfg, st) ==
    IF cfg = NoConfig
    THEN st
    ELSE ProcessAnalogSticks(js, cfg, ProcessButtons(js, cfg, ProcessPOV(js, cfg, st)))

ProcessGamepadInput(js, cfg, st) ==
    IF cfg = NoConfig
    THEN st
    ELSE ProcessAnalogSticks(js, cfg, ProcessPOV(js, cfg, ProcessButtons(js, cfg, st)))

\* InputProcessor::ResetState
ResetState ==
    [prevButtons |-> [i \in ButtonIdx |-> FALSE],
     prevPOV |-> POV_CENTERED,
     prevAxisDown |-> [d \in AxisDirection |-> FALSE]]

(***************************************************************************)
(* GamepadDevice: state.                                                   *)
(***************************************************************************)
VARIABLES
    lifecycle,          \* "constructed", "live" (Initialize returned true), "failed", "shut"
    m_device,           \* ComPtr<IDirectInputDevice8>: "null" or "held"
    devAcquired,        \* platform side: the held handle is acquired
    m_connected,
    m_acquired,
    m_initialized,
    m_configManager,    \* NoConfig or the compiled key mapping
    m_inputProcessor,   \* TRUE iff the unique_ptr<InputProcessor> is non-null
    proc_configManager, \* InputProcessor::m_configManager: the object it points at
    m_currentState,     \* DIJOYSTATE2 of the last successful GetDeviceState
    m_prevButtons,      \* InputProcessor::m_prevButtons
    m_prevPOV,          \* InputProcessor::m_prevPOV
    m_prevAxisDown,     \* InputProcessor::m_prevAxisDown
    lastOp,             \* the operation that ran last
    calls,              \* platform calls the last operation made, with their results
    injected,           \* SendInput calls the last operation made
    keysDown            \* logical inputs whose last injection was a press

(***************************************************************************)
(* MultipleGamepadManager: state.  A tracked GamepadDevice is the record   *)
(* [guid, m_connected] of the two members the manager reads.               *)
(***************************************************************************)
VARIABLES
    m_directInput,          \* ComPtr<IDirectInput8>: "null" or "held"
    mgr_initialized,        \* MultipleGamepadManager::m_initialized
    m_devices,              \* vector<unique_ptr<GamepadDevice>>
    m_deviceIndexByGUID,    \* GUID -> index into m_devices, as of the last rebuild
    m_lastScanTime,
    tickCount,              \* the value GetTickCount returns
    steps                   \* what the last manager operation did, in order

(***************************************************************************)
(* KeyResolver and the debug string of a key sequence: inputs and results. *)
(* A string is the sequence of its characters.                             *)
(***************************************************************************)
VARIABLES
    keyNames,       \* the vector<string> given to resolveSequence
    resolvedKeys,   \* what resolve returned for each name, in order
    keyCodes,       \* the vector<WORD> resolveSequence returned
    vkSeq           \* the debug string built from keyCodes

keyVars == <<keyNames, resolvedKeys, keyCodes, vkSeq>>

(***************************************************************************)
(* DisplayBuffer, and the threads that call it.                            *)
(***************************************************************************)
VARIABLES
    m_lines,            \* the line vector; a line is [by, op, part]
    m_maxLines,
    m_totalLinesAdded,
    m_mutex,            \* the threads that are past a lock_guard on m_mutex
    threads             \* each thread's call: [op, todo]

bufVars == <<m_lines, m_maxLines, m_totalLinesAdded, m_mutex, threads>>

regVars == <<m_directInput, mgr_initialized, m_devices, m_deviceIndexByGUID,
             m_lastScanTime, tickCount, steps>>

devVars == <<lifecycle, m_device, devAcquired, m_connected, m_acquired, m_initialized,
             m_configManager, m_inputProcessor, proc_configManager, m_currentState,
             m_prevButtons, m_prevPOV, m_prevAxisDown, calls, injected, keysDown>>

vars == <<lifecycle, m_device, devAcquired, m_connected, m_acquired, m_initialized,
          m_configManager, m_inputProcessor, proc_configManager, m_currentState,
          m_prevButtons, m_prevPOV, m_prevAxisDown, lastOp, calls, injected, keysDown,
          m_directInput, mgr_initialized, m_devices, m_deviceIndexByGUID,
          m_lastScanTime, tickCount, steps,
          keyNames, resolvedKeys, keyCodes, vkSeq,
          m_lines, m_maxLines, m_totalLinesAdded, m_mutex, threads>>

\* How many threads write to the DisplayBuffer; thread 0 is the one that paints
NumWriters == 2

\* A call starts only while the longest call, AddGamepadState, can add its
\* lines without m_totalLinesAdded passing this number
MaxLinesAdded == 11

MIN_MAX_LINES == 10
MAX_MAX_LINES == 1000
\* The size Application passes to the constructor
APP_MAX_LINES == 150

Writers == 1 .. NumWriters
PaintThread == 0

\* A thread that is in no call of the buffer
NoCall == [op |-> "none", todo |-> <<>>]

\* std::clamp
clamp(v, lo, hi) == IF v < lo THEN lo ELSE IF v > hi THEN hi ELSE v

Call(name, hr) == [call |-> name, hr |-> hr]

\* Values of InputProcessor::m_configManager, a raw pointer: null, or the
\* address of a ConfigManager that is "live" or "destroyed", with the mapping
\* the object held when the pointer was last valid
NullConfigPointer == [target |-> "null", keys |-> NoConfig]

PointerTo(cfg) == [target |-> "live", keys |-> cfg]

Dangling(pointer) == [pointer EXCEPT !.target = "destroyed"]

\* The logical inputs left pressed after the injections of log
RECURSIVE KeysDownAfter(_, _)
KeysDownAfter(down, log) ==
    IF log = <<>>
    THEN down
    ELSE LET e == Head(log) IN
         KeysDownAfter(IF e.down THEN down \cup {<<e.kind, e.index>>}
                                 ELSE down \ {<<e.kind, e.index>>},
                       Tail(log))

\* GamepadDevice::GamepadDevice() and MultipleGamepadManager::MultipleGamepadManager()
InitObjects ==
    /\ m_directInput = "null"
    /\ mgr_initialized = FALSE
    /\ m_devices = <<>>
    /\ m_deviceIndexByGUID = <<>>
    /\ m_lastScanTime = 0
    /\ tickCount = 0
    /\ steps = <<>>
    /\ lifecycle = "constructed"
    /\ m_device = "null"
    /\ devAcquired = FALSE
    /\ m_connected = FALSE
    /\ m_acquired = FALSE
    /\ m_initialized = FALSE
    /\ m_configManager = NoConfig
    /\ m_inputProcessor = FALSE
    /\ proc_configManager = NullConfigPointer
    /\ m_currentState = ZeroState
    /\ m_prevButtons = ResetState.prevButtons
    /\ m_prevPOV = ResetState.prevPOV
    /\ m_prevAxisDown = ResetState.prevAxisDown
    /\ lastOp = "GamepadDevice"
    /\ calls = <<>>
    /\ injected = <<>>
    /\ keysDown = {}
    /\ m_lines = <<>>
    /\ m_maxLines = clamp(APP_MAX_LINES, MIN_MAX_LINES, MAX_MAX_LINES)
    /\ m_totalLinesAdded = 0
    /\ m_mutex = {}
    /\ threads = [t \in {PaintThread} \cup Writers |-> NoCall]

\* The objects as constructed, and no key name resolved yet
Init ==
    /\ InitObjects
    /\ keyNames = <<>>
    /\ resolvedKeys = <<>>
    /\ keyCodes = <<>>
    /\ vkSeq = <<>>

(***************************************************************************)
(* GamepadDevice: helpers.  Each returns the values the members have when  *)
(* the helper returns, and the platform calls it made.                     *)
(***************************************************************************)
\* SetAxisRanges: one SetProperty(DIPROP_RANGE) per axis, results ignored
SetAxisRanges(dev, propHr) ==
    IF dev = "null" THEN <<>> ELSE [i \in 1 .. 6 |-> Call("SetProperty", propHr)]

ConfigureDevice(dev, fmtHr, coopHr, propHr) ==
    IF dev = "null"
    THEN [ok |-> FALSE, calls |-> <<>>]
    ELSE IF FAILED(fmtHr)
    THEN [ok |-> FALSE, calls |-> <<Call("SetDataFormat", fmtHr)>>]
    ELSE IF FAILED(coopHr)
    THEN [ok |-> FALSE,
          calls |-> <<Call("SetDataFormat", fmtHr), Call("SetCooperativeLevel", coopHr)>>]
    ELSE [ok |-> TRUE,
          calls |-> <<Call("SetDataFormat", fmtHr), Call("SetCooperativeLevel", coopHr)>>
                    \o SetAxisRanges(dev, propHr)]

AcquireDevice(dev, acquired, hwAcq, acqHr) ==
    IF dev = "null"
    THEN [ok |-> FALSE, acquired |-> acquired, hwAcq |-> hwAcq, calls |-> <<>>]
    ELSE IF SUCCEEDED(acqHr)
    THEN [ok |-> TRUE, acquired |-> TRUE, hwAcq |-> TRUE, calls |-> <<Call("Acquire", acqHr)>>]
    ELSE [ok |-> FALSE, acquired |-> FALSE, hwAcq |-> hwAcq, calls |-> <<Call("Acquire", acqHr)>>]

UnacquireDevice(dev, acquired, hwAcq) ==
    IF dev # "null" /\ acquired
    THEN [acquired |-> FALSE, hwAcq |-> FALSE, calls |-> <<Call("Unacquire", "S_OK")>>]
    ELSE [acquired |-> acquired, hwAcq |-> hwAcq, calls |-> <<>>]

\* ComPtr::Reset: Release on the handle it holds, if any
ReleaseDevice(dev) == IF dev = "null" THEN <<>> ELSE <<Call("Release", "S_OK")>>

\* LoadConfiguration: outcome.loaded is the result of load(), outcome.cfg the
\* file's mapping, outcome.saved the result of save() of the default file.
LoadConfiguration(outcome) ==
    IF outcome.loaded
    THEN [ok |-> TRUE, cfg |-> outcome.cfg]
    ELSE [ok |-> outcome.saved, cfg |-> DefaultConfig]

LoadOutcomes ==
    [loaded : {TRUE}, cfg : FileConfigs, saved : {TRUE}]
    \cup [loaded : {FALSE}, cfg : {DefaultConfig}, saved : BOOLEAN]

\* Variant: every Acquire failure is treated as a lost device
AcquireLost_AnyFailure(hr) == FAILED(hr)

\* "hr == DIERR_INPUTLOST || hr == DIERR_NOTACQUIRED" after a failed Acquire
AcquireLost(hr) == hr \in {"DIERR_INPUTLOST", "DIERR_NOTACQUIRED"}

\* Variant: the state-read check repeats the Acquire check and misses unplugged
StateReadLost_NoUnplugged(hr) == hr \in {"DIERR_INPUTLOST", "DIERR_NOTACQUIRED"}

\* "hr == DIERR_INPUTLOST || hr == DIERR_NOTACQUIRED || hr == DIERR_UNPLUGGED"
\* after a failed GetDeviceState
StateReadLost(hr) == hr \in {"DIERR_INPUTLOST", "DIERR_NOTACQUIRED", "DIERR_UNPLUGGED"}

\* What the failed-GetDeviceState branch does with the handle: it is kept
DeviceAfterStateReadLost(dev) == dev

\* The members PollAndGetState can leave behind, and its platform calls.
PollAndGetState(pollHr, acqHr, gdsHr, js) ==
    LET base == [ok |-> FALSE, connected |-> m_connected, acquired |-> m_acquired,
                 hwAcq |-> devAcquired, device |-> m_device, state |-> m_currentState,
                 calls |-> <<>>]
    IN
    IF m_device = "null" \/ ~m_initialized
    THEN [base EXCEPT !.connected = FALSE]
    ELSE IF FAILED(pollHr) /\ FAILED(acqHr)
    THEN [base EXCEPT !.connected = IF AcquireLost(acqHr) THEN FALSE ELSE m_connected,
                      !.calls = <<Call("Poll", pollHr), Call("Acquire", acqHr)>>]
    ELSE LET pre == IF FAILED(pollHr)
                    THEN [base EXCEPT !.hwAcq = TRUE,
                                      !.calls = <<Call("Poll", pollHr), Call("Acquire", acqHr)>>]
                    ELSE [base EXCEPT !.calls = <<Call("Poll", pollHr)>>]
         IN
         IF FAILED(gdsHr)
         THEN IF StateReadLost(gdsHr)
              THEN LET un == UnacquireDevice(m_device, pre.acquired, pre.hwAcq) IN
                   [pre EXCEPT !.connected = FALSE,
                               !.acquired = un.acquired,
                               !.hwAcq = un.hwAcq,
                               !.device = DeviceAfterStateReadLost(m_device),
                               !.calls = pre.calls \o <<Call("GetDeviceState", gdsHr)>> \o un.calls]
              ELSE [pre EXCEPT !.calls = pre.calls \o <<Call("GetDeviceState", gdsHr)>>]
         ELSE [pre EXCEPT !.ok = TRUE,
                          !.state = js,
                          !.calls = pre.calls \o <<Call("GetDeviceState", gdsHr)>>]

(***************************************************************************)
(* GamepadDevice: operations.                                              *)
(***************************************************************************)
\* Variant: like TryToReconnect, Initialize connects only an acquired device
ConnectedAfterInitialize_NeedsAcquire(acquireOk) == acquireOk

\* "m_connected = true;" whatever AcquireDevice returned
ConnectedAfterInitialize(acquireOk) == TRUE

Initialize(createHr, fmtHr, coopHr, propHr, outcome, acqHr) ==
    /\ lifecycle = "constructed"
    /\ UNCHANGED regVars
    /\ UNCHANGED keyVars
    /\ UNCHANGED bufVars
    /\ lastOp' = "Initialize"
    /\ injected' = <<>>
    /\ UNCHANGED <<m_currentState, keysDown>>
    /\ IF m_initialized
       THEN /\ calls' = <<>>
            /\ UNCHANGED <<lifecycle, m_device, devAcquired, m_connected, m_acquired,
                           m_initialized, m_configManager, m_inputProcessor, proc_configManager,
                           m_prevButtons, m_prevPOV, m_prevAxisDown>>
       ELSE IF FAILED(createHr)
       THEN /\ calls' = <<Call("CreateDevice", createHr)>>
            /\ lifecycle' = "failed"
            /\ UNCHANGED <<m_device, devAcquired, m_connected, m_acquired,
                           m_initialized, m_configManager, m_inputProcessor, proc_configManager,
                           m_prevButtons, m_prevPOV, m_prevAxisDown>>
       ELSE LET conf == ConfigureDevice("held", fmtHr, coopHr, propHr)
                load == LoadConfiguration(outcome)
                acq == AcquireDevice("held", m_acquired, FALSE, acqHr)
            IN
            /\ m_device' = "held"
            /\ IF ~conf.ok
               THEN /\ calls' = <<Call("CreateDevice", createHr)>> \o conf.calls
                    /\ lifecycle' = "failed"
                    /\ devAcquired' = FALSE
                    /\ UNCHANGED <<m_connected, m_acquired, m_initialized, m_configManager,
                                   m_inputProcessor, proc_configManager, m_prevButtons, m_prevPOV, m_prevAxisDown>>
               ELSE IF ~load.ok
               THEN /\ calls' = <<Call("CreateDevice", createHr)>> \o conf.calls
                    /\ lifecycle' = "failed"
                    /\ devAcquired' = FALSE
                    /\ m_configManager' = load.cfg
                    /\ UNCHANGED <<m_connected, m_acquired, m_initialized,
                                   m_inputProcessor, proc_configManager, m_prevButtons, m_prevPOV, m_prevAxisDown>>
               ELSE /\ calls' = <<Call("CreateDevice", createHr)>> \o conf.calls \o acq.calls
                    /\ lifecycle' = "live"
                    /\ m_configManager' = load.cfg
                    /\ m_inputProcessor' = TRUE
                    /\ proc_configManager' = PointerTo(load.cfg)
                    /\ m_prevButtons' = ResetState.prevButtons
                    /\ m_prevPOV' = ResetState.prevPOV
                    /\ m_prevAxisDown' = ResetState.prevAxisDown
                    /\ m_acquired' = acq.acquired
                    /\ devAcquired' = acq.hwAcq
                    /\ m_initialized' = TRUE
                    /\ m_connected' = ConnectedAfterInitialize(acq.ok)

\* What a read through a pointer to a destroyed ConfigManager can return:
\* the mapping the object held, or whatever was stored there since
UseAfterFreeReads(pointer) == {pointer.keys, DefaultConfig, ChordConfig, StickOnlyConfig}

\* The mapping the InputProcessor gets through m_configManager in one frame
MappingsRead(pointer) ==
    IF pointer.target = "destroyed" THEN UseAfterFreeReads(pointer) ELSE {pointer.keys}

\* Variant: the early return tests only the processor
SkipsInput_NoConnectedCheck(inputProcessor, connected) == ~inputProcessor

\* "if (!m_inputProcessor || !m_connected) return;"
SkipsInput(inputProcessor, connected) == ~inputProcessor \/ ~connected

\* Variant: the sample is processed whatever PollAndGetState returned
ProcessesState_Always(ok) == TRUE

\* "if (PollAndGetState()) { ... ProcessGamepadInput(m_currentState); }"
ProcessesState(ok) == ok

ProcessInput(pollHr, acqHr, gdsHr, js) ==
    /\ lifecycle \in {"live", "shut"}
    /\ UNCHANGED regVars
    /\ UNCHANGED keyVars
    /\ UNCHANGED bufVars
    /\ lastOp' = "ProcessInput"
    /\ UNCHANGED <<lifecycle, m_initialized, m_configManager, m_inputProcessor, proc_configManager>>
    /\ IF SkipsInput(m_inputProcessor, m_connected)
       THEN /\ calls' = <<>>
            /\ injected' = <<>>
            /\ UNCHANGED <<m_device, devAcquired, m_connected, m_acquired, m_currentState,
                           m_prevButtons, m_prevPOV, m_prevAxisDown>>
       ELSE \E r \in {PollAndGetState(pollHr, acqHr, gdsHr, js)} :
            /\ calls' = r.calls
            /\ m_connected' = r.connected
            /\ m_acquired' = r.acquired
            /\ devAcquired' = r.hwAcq
            /\ m_device' = r.device
            /\ m_currentState' = r.state
            /\ IF ProcessesState(r.ok)
               THEN \E cfg \in MappingsRead(proc_configManager) :
                    \E st \in {ProcessGamepadInput(r.state, cfg,
                                  [prevButtons |-> m_prevButtons, prevPOV |-> m_prevPOV,
                                   prevAxisDown |-> m_prevAxisDown, log |-> <<>>])} :
                        /\ m_prevButtons' = st.prevButtons
                        /\ m_prevPOV' = st.prevPOV
                        /\ m_prevAxisDown' = st.prevAxisDown
                        /\ injected' = st.log
               ELSE /\ injected' = <<>>
                    /\ UNCHANGED <<m_prevButtons, m_prevPOV, m_prevAxisDown>>
    /\ keysDown' = KeysDownAfter(keysDown, injected')

\* Variant: like Initialize, a failed Acquire still leaves the controller connected
ConnectedAfterReconnect_Always(acquireOk, connected) == TRUE

\* "if (AcquireDevice()) { m_connected = true; ... }"
ConnectedAfterReconnect(acquireOk, connected) == IF acquireOk THEN TRUE ELSE connected

\* Variant: a reconnection clears the stored button bits
ButtonsAfterReconnect_Reset(prevButtons, connected) ==
    IF connected THEN ResetState.prevButtons ELSE prevButtons

\* TryToReconnect does not touch m_inputProcessor: the bits stay as stored
ButtonsAfterReconnect(prevButtons, connected) == prevButtons

\* newDev: what CreateDevice leaves in m_device when it fails
TryToReconnect(createHr, newDev, fmtHr, coopHr, propHr, acqHr) ==
    /\ lifecycle \in {"live", "shut"}
    /\ UNCHANGED regVars
    /\ UNCHANGED keyVars
    /\ UNCHANGED bufVars
    /\ lastOp' = "TryToReconnect"
    /\ injected' = <<>>
    /\ UNCHANGED <<lifecycle, m_initialized, m_configManager, m_inputProcessor, proc_configManager,
                   m_currentState, m_prevPOV, m_prevAxisDown, keysDown>>
    /\ IF m_connected
       THEN /\ calls' = <<>>
            /\ UNCHANGED <<m_device, devAcquired, m_connected, m_acquired>>
       ELSE IF FAILED(createHr)
       THEN /\ calls' = <<Call("CreateDevice", createHr)>>
            /\ m_device' = newDev
            /\ devAcquired' = (devAcquired /\ newDev = "held")
            /\ UNCHANGED <<m_connected, m_acquired>>
       ELSE LET conf == ConfigureDevice("held", fmtHr, coopHr, propHr)
                acq == AcquireDevice("held", m_acquired, FALSE, acqHr)
            IN
            IF ~conf.ok
            THEN /\ calls' = <<Call("CreateDevice", createHr)>> \o conf.calls
                               \o ReleaseDevice("held")
                 /\ m_device' = "null"
                 /\ devAcquired' = FALSE
                 /\ UNCHANGED <<m_connected, m_acquired>>
            ELSE /\ calls' = <<Call("CreateDevice", createHr)>> \o conf.calls \o acq.calls
                 /\ m_device' = "held"
                 /\ devAcquired' = acq.hwAcq
                 /\ m_acquired' = acq.acquired
                 /\ m_connected' = ConnectedAfterReconnect(acq.ok, m_connected)
    /\ m_prevButtons' = ButtonsAfterReconnect(m_prevButtons, m_connected')

\* Variant: Shutdown without the early return, calling Unacquire without
\* UnacquireDevice's test of the handle and of m_acquired
Shutdown_Unguarded ==
    /\ lastOp' = "Shutdown"
    /\ UNCHANGED regVars
    /\ UNCHANGED keyVars
    /\ UNCHANGED bufVars
    /\ injected' = <<>>
    /\ lifecycle' = "shut"
    /\ UNCHANGED <<m_currentState, keysDown>>
    /\ calls' = <<Call("Unacquire", "S_OK")>> \o ReleaseDevice(m_device)
    /\ m_inputProcessor' = FALSE
    /\ proc_configManager' = NullConfigPointer
    /\ m_prevButtons' = ResetState.prevButtons
    /\ m_prevPOV' = ResetState.prevPOV
    /\ m_prevAxisDown' = ResetState.prevAxisDown
    /\ m_configManager' = NoConfig
    /\ m_device' = "null"
    /\ devAcquired' = FALSE
    /\ m_connected' = FALSE
    /\ m_acquired' = FALSE
    /\ m_initialized' = FALSE

Shutdown ==
    /\ lastOp' = "Shutdown"
    /\ UNCHANGED regVars
    /\ UNCHANGED keyVars
    /\ UNCHANGED bufVars
    /\ injected' = <<>>
    /\ lifecycle' = "shut"
    /\ UNCHANGED <<m_currentState, keysDown>>
    /\ IF ~m_initialized
       THEN /\ calls' = <<>>
            /\ UNCHANGED <<m_device, devAcquired, m_connected, m_acquired, m_initialized,
                           m_configManager, m_inputProcessor, proc_configManager,
                           m_prevButtons, m_prevPOV, m_prevAxisDown>>
       ELSE LET un == UnacquireDevice(m_device, m_acquired, devAcquired) IN
            /\ calls' = un.calls \o ReleaseDevice(m_device)
            /\ m_inputProcessor' = FALSE
            /\ proc_configManager' = NullConfigPointer
            /\ m_prevButtons' = ResetState.prevButtons
            /\ m_prevPOV' = ResetState.prevPOV
            /\ m_prevAxisDown' = ResetState.prevAxisDown
            /\ m_configManager' = NoConfig
            /\ m_device' = "null"
            /\ devAcquired' = FALSE
            /\ m_connected' = FALSE
            /\ m_acquired' = FALSE
            /\ m_initialized' = FALSE

\* "m_configManager = std::make_unique<JsonConfigManager>(...)" destroys the
\* object the InputProcessor points at; m_inputProcessor is not told
PointerAfterReload(pointer, cfg) ==
    IF pointer.target = "null" THEN pointer ELSE Dangling(pointer)

\* GamepadDevice::LoadConfiguration called on its own, after Initialize
ReloadConfiguration(outcome) ==
    /\ lifecycle = "live"
    /\ UNCHANGED regVars
    /\ UNCHANGED keyVars
    /\ UNCHANGED bufVars
    /\ lastOp' = "LoadConfiguration"
    /\ calls' = <<>>
    /\ injected' = <<>>
    /\ m_configManager' = LoadConfiguration(outcome).cfg
    /\ proc_configManager' = PointerAfterReload(proc_configManager,
                                                LoadConfiguration(outcome).cfg)
    /\ UNCHANGED <<lifecycle, m_device, devAcquired, m_connected, m_acquired, m_initialized,
                   m_inputProcessor, m_currentState, m_prevButtons, m_prevPOV,
                   m_prevAxisDown, keysDown>>

(***************************************************************************)
(* Specification: the device's public operations, called in any order      *)
(* that the object's lifetime allows, with every platform outcome.         *)
(***************************************************************************)
\* Each input is drawn only where the code reads it
DoInitialize ==
    \E createHr \in OkOrFail :
      \E fmtHr \in (IF SUCCEEDED(createHr) THEN OkOrFail ELSE {"S_OK"}) :
        \E coopHr \in (IF SUCCEEDED(createHr) /\ SUCCEEDED(fmtHr) THEN OkOrFail ELSE {"S_OK"}) :
          LET configured == SUCCEEDED(createHr) /\ SUCCEEDED(fmtHr) /\ SUCCEEDED(coopHr) IN
          \E propHr \in (IF configured THEN OkOrFail ELSE {"S_OK"}),
             outcome \in (IF configured THEN LoadOutcomes
                          ELSE {[loaded |-> FALSE, cfg |-> DefaultConfig, saved |-> FALSE]}) :
            \E acqHr \in (IF configured /\ LoadConfiguration(outcome).ok
                          THEN AcquireResults ELSE {"S_OK"}) :
              Initialize(createHr, fmtHr, coopHr, propHr, outcome, acqHr)

DoProcessInput ==
    LET polls == m_inputProcessor /\ m_connected /\ m_device # "null" /\ m_initialized IN
    \E pollHr \in (IF polls THEN PollResults ELSE {"S_OK"}) :
      \E acqHr \in (IF polls /\ FAILED(pollHr) THEN AcquireResults ELSE {"S_OK"}) :
        LET reads == polls /\ ~(FAILED(pollHr) /\ FAILED(acqHr)) IN
        \E gdsHr \in (IF reads THEN HResults ELSE {"S_OK"}) :
          \E js \in (IF reads /\ SUCCEEDED(gdsHr) THEN Samples ELSE {m_currentState}) :
            ProcessInput(pollHr, acqHr, gdsHr, js)

DoTryToReconnect ==
    \E createHr \in (IF m_connected THEN {"S_OK"} ELSE OkOrFail) :
      LET created == ~m_connected /\ SUCCEEDED(createHr) IN
      \E newDev \in (IF ~m_connected /\ FAILED(createHr) THEN {m_device, "null"} ELSE {"held"}),
         fmtHr \in (IF created THEN OkOrFail ELSE {"S_OK"}) :
        \E coopHr \in (IF created /\ SUCCEEDED(fmtHr) THEN OkOrFail ELSE {"S_OK"}) :
          LET configured == created /\ SUCCEEDED(fmtHr) /\ SUCCEEDED(coopHr) IN
          \E propHr \in (IF configured THEN OkOrFail ELSE {"S_OK"}),
             acqHr \in (IF configured THEN AcquireResults ELSE {"S_OK"}) :
            TryToReconnect(createHr, newDev, fmtHr, coopHr, propHr, acqHr)

DoShutdown == Shutdown

Next ==
    \/ DoInitialize
    \/ DoProcessInput
    \/ DoTryToReconnect
    \/ DoShutdown

Spec == Init /\ [][Next]_vars

(***************************************************************************)
(* Specification of the edge detector: a device that initializes and then  *)
(* reads one sample per frame, the samples drawn from the boundaries of    *)
(* the hat wedges and of the stick thresholds.                             *)
(***************************************************************************)
\* Hat angles: each wedge bound, its two neighbours, and the wedge centres
HatAngles ==
    {0, 1, 4499, 4500, 4501, 9000, 13499, 13500, 13501, 18000,
     22499, 22500, 22501, 27000, 31499, 31500, 31501, 35999}

\* Axis values: each threshold of the configurations, its neighbour, and the
\* first value outside the configured range
AxisValues == {-1001, -1000, -401, -400, 0, 400, 401, 1000, 1001}

\* Stick positions: on one axis, or on a diagonal
StickPoints ==
    {p \in AxisValues \X AxisValues :
        \/ p[1] = 0
        \/ p[2] = 0
        \/ p[1] = p[2]
        \/ p[1] = -p[2]}

NoButtons == [i \in ButtonIdx |-> FALSE]

FrameSamples ==
    \* the hat alone
    {[rgbButtons |-> NoButtons, pov |-> a, lX |-> 0, lY |-> 0] : a \in HatAngles \cup {POV_CENTERED}}
    \* the stick alone
    \cup {[rgbButtons |-> NoButtons, pov |-> POV_CENTERED, lX |-> p[1], lY |-> p[2]] : p \in StickPoints}
    \* the hat and the stick on the same direction
    \cup {[rgbButtons |-> NoButtons, pov |-> 0, lX |-> 0, lY |-> -1001],
          [rgbButtons |-> NoButtons, pov |-> 9000, lX |-> 1001, lY |-> 0],
          [rgbButtons |-> NoButtons, pov |-> 18000, lX |-> 0, lY |-> 1001],
          [rgbButtons |-> NoButtons, pov |-> 27000, lX |-> -1001, lY |-> 0]}

FrameLoadOutcomes ==
    {[loaded |-> TRUE, cfg |-> StickOnlyConfig, saved |-> TRUE],
     [loaded |-> FALSE, cfg |-> DefaultConfig, saved |-> TRUE]}

FramesInitialize ==
    \E outcome \in FrameLoadOutcomes :
        Initialize("S_OK", "S_OK", "S_OK", "S_OK", outcome, "S_OK")

FramesProcessInput ==
    \E js \in FrameSamples : ProcessInput("S_OK", "S_OK", "S_OK", js)

NextFrames ==
    \/ FramesInitialize
    \/ FramesProcessInput

SpecFrames == Init /\ [][NextFrames]_vars

(***************************************************************************)
(* Specification of the reload: a device that initializes, reads one       *)
(* sample per frame, and has LoadConfiguration called between frames.      *)
(***************************************************************************)
ReloadInitialize ==
    \E outcome \in LoadOutcomes :
        Initialize("S_OK", "S_OK", "S_OK", "S_OK", outcome, "S_OK")

ReloadProcessInput ==
    \E js \in Samples : ProcessInput("S_OK", "S_OK", "S_OK", js)

DoLoadConfiguration ==
    \E outcome \in LoadOutcomes : ReloadConfiguration(outcome)

NextReload ==
    \/ ReloadInitialize
    \/ ReloadProcessInput
    \/ DoLoadConfiguration

SpecReload == Init /\ [][NextReload]_vars

(***************************************************************************)
(* MultipleGamepadManager: helpers.  reg is the manager's state while an   *)
(* operation runs: [devices, index, lastScan, steps].                      *)
(***************************************************************************)
\* One entry of steps: an enumeration callback for the instance with the
\* given GUID ("managed", or "initialized" / "failed" as Initialize returned),
\* a scan with its EnumDevices result and the devices tracked when it
\* returned, or a call on the device with the given GUID ("connected" /
\* "disconnected" as the device is when the call returns)
Step(op, guid, result, devices) ==
    [op |-> op, guid |-> guid, result |-> result, devices |-> devices]

\* The value an operation of the manager returned, as the last entry of steps
Returned(op, result) == Step(op, 0, result, <<>>)

\* DirectInput8Create: the context it leaves in m_directInput
CreateDirectInput(createHr) ==
    IF FAILED(createHr)
    THEN [ok |-> FALSE, directInput |-> "null"]
    ELSE [ok |-> TRUE, directInput |-> "held"]

\* Variant: no tracked device is ever recognised
IsDeviceAlreadyManaged_Never(devices, guid) == FALSE

\* std::any_of over m_devices with IsEqualGUID
IsDeviceAlreadyManaged(devices, guid) ==
    \E i \in 1 .. Len(devices) : devices[i].guid = guid

\* What EnumDevices reports, instance by instance in GUID order: "absent"
\* (not attached), or attached with the result GamepadDevice::Initialize
\* returns for it, "ok" or "fail" ("fail" is drawn only for the instances the
\* callback initializes)
Enumerations(devices) ==
    {att \in [Guids -> {"absent", "ok", "fail"}] :
        \A g \in Guids : IsDeviceAlreadyManaged(devices, g) => att[g] # "fail"}

\* The inputs of one ScanForDevices
ScanInputs(devices) == [hr : OkOrFail, insts : Enumerations(devices)]

NoScanInput == [hr |-> "S_OK", insts |-> [g \in Guids |-> "absent"]]

\* Variant: a device whose Initialize failed is tracked all the same
EnumDevicesCallback_KeepFailed(reg, inst) ==
    IF IsDeviceAlreadyManaged(reg.devices, inst.guid)
    THEN [reg EXCEPT !.steps = Append(@, Step("EnumDevicesCallback", inst.guid, "managed", <<>>))]
    ELSE [reg EXCEPT !.devices = Append(@, [guid |-> inst.guid, m_connected |-> inst.initOk]),
                     !.steps = Append(@, Step("EnumDevicesCallback", inst.guid,
                                              IF inst.initOk THEN "initialized" ELSE "failed",
                                              <<>>))]

\* A GamepadDevice whose Initialize returned true has m_connected = true
EnumDevicesCallback(reg, inst) ==
    IF IsDeviceAlreadyManaged(reg.devices, inst.guid)
    THEN [reg EXCEPT !.steps = Append(@, Step("EnumDevicesCallback", inst.guid, "managed", <<>>))]
    ELSE IF inst.initOk
    THEN [reg EXCEPT !.devices = Append(@, [guid |-> inst.guid, m_connected |-> TRUE]),
                     !.steps = Append(@, Step("EnumDevicesCallback", inst.guid,
                                              "initialized", <<>>))]
    ELSE [reg EXCEPT !.steps = Append(@, Step("EnumDevicesCallback", inst.guid, "failed", <<>>))]

\* EnumDevices: the callback runs once per attached instance and always continues
RECURSIVE EnumDevicesFrom(_, _, _)
EnumDevicesFrom(g, reg, insts) ==
    IF g > MaxDevices
    THEN reg
    ELSE IF insts[g] = "absent"
    THEN EnumDevicesFrom(g + 1, reg, insts)
    ELSE EnumDevicesFrom(g + 1,
                         EnumDevicesCallback(reg, [guid |-> g, initOk |-> insts[g] = "ok"]),
                         insts)

EnumDevices(reg, insts) == EnumDevicesFrom(1, reg, insts)

\* Variant: nothing is removed
CleanupDisconnectedDevices_KeepAll(devices) == devices

\* remove_if + erase: the connected devices, in their order
CleanupDisconnectedDevices(devices) ==
    SelectSeq(devices, LAMBDA d : d.m_connected)

\* "m_deviceIndexByGUID[guid string] = i" for i = 0 .. size-1
RebuildIndex(devices) ==
    [g \in {devices[i].guid : i \in 1 .. Len(devices)} |->
        (CHOOSE i \in 1 .. Len(devices) :
            /\ devices[i].guid = g
            /\ \A j \in 1 .. Len(devices) : devices[j].guid = g => j <= i) - 1]

ScanForDevices(reg, directInput, in, now) ==
    IF directInput = "null"
    THEN reg
    ELSE LET enumerated == EnumDevices(reg, in.insts) IN
         IF FAILED(in.hr)
         THEN [enumerated EXCEPT !.index = <<>>,
                                 !.steps = Append(@, Step("ScanForDevices", 0, in.hr,
                                                          enumerated.devices))]
         ELSE LET kept == CleanupDisconnectedDevices(enumerated.devices) IN
              [devices |-> kept,
               index |-> RebuildIndex(enumerated.devices),
               lastScan |-> now,
               steps |-> Append(enumerated.steps, Step("ScanForDevices", 0, in.hr, kept))]

\* The results of Poll, Acquire and GetDeviceState the model draws for one
\* ProcessInput of a tracked device: a frame that reads the state and a frame
\* that loses the device.  (A GetDeviceState error outside StateReadLost
\* leaves m_connected as the successful read does.)
PollOutcomes ==
    {[pollHr |-> "S_OK", acqHr |-> "S_OK", gdsHr |-> "S_OK"],
     [pollHr |-> "S_OK", acqHr |-> "S_OK", gdsHr |-> "DIERR_UNPLUGGED"]}

\* m_connected after GamepadDevice::ProcessInput on a connected, initialized device
ConnectedAfterPoll(po) ==
    IF FAILED(po.pollHr) /\ FAILED(po.acqHr)
    THEN ~AcquireLost(po.acqHr)
    ELSE IF FAILED(po.gdsHr)
    THEN ~StateReadLost(po.gdsHr)
    ELSE TRUE

ConnectedGuids(devices) ==
    {devices[i].guid : i \in {j \in 1 .. Len(devices) : devices[j].m_connected}}

DisconnectedGuids(devices) ==
    {devices[i].guid : i \in {j \in 1 .. Len(devices) : ~devices[j].m_connected}}

\* Variant: the loop polls every tracked device
PollsDevice_Always(device) == TRUE

\* "if (device && device->IsConnected())"
PollsDevice(device) == device.m_connected

\* The loop of ProcessAllDevices over m_devices, from index i
RECURSIVE ProcessDevicesFrom(_, _, _)
ProcessDevicesFrom(i, reg, po) ==
    IF i > Len(reg.devices)
    THEN reg
    ELSE LET device == reg.devices[i] IN
         IF PollsDevice(device)
         THEN LET connected == IF device.guid \in DOMAIN po
                               THEN ConnectedAfterPoll(po[device.guid])
                               ELSE device.m_connected
              IN  ProcessDevicesFrom(i + 1,
                     [reg EXCEPT !.devices[i].m_connected = connected,
                                 !.steps = Append(@, Step("ProcessInput", device.guid,
                                     IF connected THEN "connected" ELSE "disconnected",
                                     <<>>))],
                     po)
         ELSE ProcessDevicesFrom(i + 1, reg, po)

\* The loop of TryToReconnectDevices over m_devices, from index i
RECURSIVE ReconnectDevicesFrom(_, _, _, _)
ReconnectDevicesFrom(i, reg, directInput, ro) ==
    IF i > Len(reg.devices)
    THEN reg
    ELSE LET device == reg.devices[i] IN
         IF ~device.m_connected
         THEN LET connected == IF directInput = "null" \/ device.guid \notin DOMAIN ro
                               THEN device.m_connected
                               ELSE ConnectedAfterReconnect(ro[device.guid], device.m_connected)
              IN  ReconnectDevicesFrom(i + 1,
                     [reg EXCEPT !.devices[i].m_connected = connected,
                                 !.steps = Append(@, Step("TryToReconnect", device.guid,
                                     IF connected THEN "connected" ELSE "disconnected",
                                     <<>>))],
                     directInput, ro)
         ELSE ReconnectDevicesFrom(i + 1, reg, directInput, ro)

\* Variant: a device whose reconnection failed is dropped at once
TryToReconnectDevices_DropFailed(reg, directInput, ro) ==
    [ReconnectDevicesFrom(1, reg, directInput, ro)
        EXCEPT !.devices = CleanupDisconnectedDevices(@)]

TryToReconnectDevices(reg, directInput, ro) == ReconnectDevicesFrom(1, reg, directInput, ro)

\* A DWORD is written as the 32-bit integer with the same bits: the values
\* from 2^31 on are the negative ones, 0xFFFFFFFF is -1.
\* a - b in DWORD arithmetic, computed on 16-bit halves
DwordSub(a, b) ==
    LET lo == (a % 65536) - (b % 65536)
        borrow == IF lo < 0 THEN 1 ELSE 0
        hi == (a \div 65536) - (b \div 65536) - borrow
    IN  (((hi + 32768) % 65536) - 32768) * 65536 + (lo + borrow * 65536)

\* a > b as DWORDs, for b below 2^31
DwordGreater(a, b) == a < 0 \/ a > b

\* Variant: the comparison includes the interval
ScanIntervalElapsed_Inclusive(currentTime, lastScanTime) ==
    \/ DwordGreater(DwordSub(currentTime, lastScanTime), SCAN_INTERVAL_MS)
    \/ DwordSub(currentTime, lastScanTime) = SCAN_INTERVAL_MS

\* "currentTime - m_lastScanTime > SCAN_INTERVAL_MS", all three DWORDs
ScanIntervalElapsed(currentTime, lastScanTime) ==
    DwordGreater(DwordSub(currentTime, lastScanTime), SCAN_INTERVAL_MS)

\* The manager's state when an operation starts
RegAtEntry ==
    [devices |-> m_devices, index |-> m_deviceIndexByGUID,
     lastScan |-> m_lastScanTime, steps |-> <<>>]

RegAssigned(reg) ==
    /\ m_devices' = reg.devices
    /\ m_deviceIndexByGUID' = reg.index
    /\ m_lastScanTime' = reg.lastScan
    /\ steps' = reg.steps

(***************************************************************************)
(* MultipleGamepadManager: operations.                                     *)
(***************************************************************************)
\* Variant: an Initialize that found no device reports failure
InitializeResult_NeedsDevice(devices) == IF devices = <<>> THEN "false" ELSE "true"

\* "return true;" after the initial scan, whatever it found
InitializeResult(devices) == "true"

ManagerInitialize ==
    /\ lastOp' = "MultipleGamepadManager::Initialize"
    /\ UNCHANGED devVars
    /\ UNCHANGED keyVars
    /\ UNCHANGED bufVars
    /\ UNCHANGED tickCount
    /\ IF mgr_initialized
       THEN /\ steps' = <<Returned("Initialize", "true")>>
            /\ UNCHANGED <<m_directInput, mgr_initialized, m_devices,
                           m_deviceIndexByGUID, m_lastScanTime>>
       ELSE \E createHr \in OkOrFail :
              IF ~CreateDirectInput(createHr).ok
              THEN /\ steps' = <<Step("DirectInput8Create", 0, createHr, <<>>),
                                 Returned("Initialize", "false")>>
                   /\ m_directInput' = CreateDirectInput(createHr).directInput
                   /\ UNCHANGED <<mgr_initialized, m_devices,
                                  m_deviceIndexByGUID, m_lastScanTime>>
              ELSE \E in \in ScanInputs(m_devices) :
                     \E r \in {ScanForDevices(
                                  [RegAtEntry EXCEPT !.steps =
                                      <<Step("DirectInput8Create", 0, createHr, <<>>)>>],
                                  CreateDirectInput(createHr).directInput, in, tickCount)} :
                       /\ m_directInput' = CreateDirectInput(createHr).directInput
                       /\ RegAssigned([r EXCEPT !.steps =
                                          Append(@, Returned("Initialize",
                                                             InitializeResult(r.devices)))])
                       /\ mgr_initialized' = TRUE

DoScanForDevices ==
    /\ lastOp' = "ScanForDevices"
    /\ UNCHANGED devVars
    /\ UNCHANGED keyVars
    /\ UNCHANGED bufVars
    /\ UNCHANGED <<m_directInput, mgr_initialized, tickCount>>
    /\ \E in \in (IF m_directInput = "null" THEN {NoScanInput} ELSE ScanInputs(m_devices)) :
         RegAssigned(ScanForDevices(RegAtEntry, m_directInput, in, tickCount))

ProcessAllDevices ==
    /\ lastOp' = "ProcessAllDevices"
    /\ UNCHANGED devVars
    /\ UNCHANGED keyVars
    /\ UNCHANGED bufVars
    /\ UNCHANGED <<m_directInput, mgr_initialized, tickCount>>
    /\ IF ~mgr_initialized
       THEN /\ steps' = <<>>
            /\ UNCHANGED <<m_devices, m_deviceIndexByGUID, m_lastScanTime>>
       ELSE LET elapsed == ScanIntervalElapsed(tickCount, m_lastScanTime) IN
            \E in \in (IF elapsed THEN ScanInputs(m_devices) ELSE {NoScanInput}) :
              \E r1 \in {IF elapsed
                         THEN ScanForDevices(RegAtEntry, m_directInput, in, tickCount)
                         ELSE RegAtEntry} :
                \E po \in [ConnectedGuids(r1.devices) -> PollOutcomes] :
                  \E r2 \in {ProcessDevicesFrom(1, r1, po)} :
                    \E ro \in [DisconnectedGuids(r2.devices) -> BOOLEAN] :
                      RegAssigned(TryToReconnectDevices(r2, m_directInput, ro))

DoTryToReconnectDevices ==
    /\ lastOp' = "TryToReconnectDevices"
    /\ UNCHANGED devVars
    /\ UNCHANGED keyVars
    /\ UNCHANGED bufVars
    /\ UNCHANGED <<m_directInput, mgr_initialized, tickCount>>
    /\ \E ro \in [DisconnectedGuids(m_devices) -> BOOLEAN] :
         RegAssigned(TryToReconnectDevices(RegAtEntry, m_directInput, ro))

ManagerShutdown ==
    /\ lastOp' = "MultipleGamepadManager::Shutdown"
    /\ UNCHANGED devVars
    /\ UNCHANGED keyVars
    /\ UNCHANGED bufVars
    /\ UNCHANGED <<m_lastScanTime, tickCount>>
    /\ steps' = <<>>
    /\ IF ~mgr_initialized
       THEN UNCHANGED <<m_directInput, mgr_initialized, m_devices, m_deviceIndexByGUID>>
       ELSE /\ m_devices' = <<>>
            /\ m_deviceIndexByGUID' = <<>>
            /\ m_directInput' = "null"
            /\ mgr_initialized' = FALSE

\* Tick values at which the model reads the clock
TickSamples == {0, 5000, 5001}

\* Time passes between two operations
AdvanceClock ==
    /\ \E t \in TickSamples : t > tickCount /\ tickCount' = t
    /\ lastOp' = "GetTickCount"
    /\ steps' = <<>>
    /\ UNCHANGED devVars
    /\ UNCHANGED keyVars
    /\ UNCHANGED bufVars
    /\ UNCHANGED <<m_directInput, mgr_initialized, m_devices, m_deviceIndexByGUID,
                   m_lastScanTime>>

\* Tick values the counter reads one after the other when it wraps: 0 (as
\* constructed), 0xFFFFFFFF, and the values 5000 and 5001 ms after 0xFFFFFFFF
WrapTickSamples == <<0, -1, 4999, 5000>>

\* Time passes between two operations: the counter reads a later sample
AdvanceClockAcrossWrap ==
    /\ \E i, j \in DOMAIN WrapTickSamples :
           /\ WrapTickSamples[i] = tickCount
           /\ i < j
           /\ tickCount' = WrapTickSamples[j]
    /\ lastOp' = "GetTickCount"
    /\ steps' = <<>>
    /\ UNCHANGED devVars
    /\ UNCHANGED keyVars
    /\ UNCHANGED bufVars
    /\ UNCHANGED <<m_directInput, mgr_initialized, m_devices, m_deviceIndexByGUID,
                   m_lastScanTime>>

NextRegistry ==
    \/ ManagerInitialize
    \/ DoScanForDevices
    \/ ProcessAllDevices
    \/ DoTryToReconnectDevices
    \/ ManagerShutdown
    \/ AdvanceClock

SpecRegistry == Init /\ [][NextRegistry]_vars

(***************************************************************************)
(* Specification of the rescan timer: the manager is initialized and       *)
(* ticked while the 32-bit tick counter runs through its wrap.             *)
(***************************************************************************)
NextClock ==
    \/ ManagerInitialize
    \/ ProcessAllDevices
    \/ AdvanceClockAcrossWrap

SpecClock == Init /\ [][NextClock]_vars

(***************************************************************************)
(* Specification of the manager with its devices' mappers: a tracked       *)
(* GamepadDevice is here the record of its GUID, m_connected, the mapping  *)
(* its ConfigManager holds and its InputProcessor's three members.         *)
(***************************************************************************)
\* The mapping in the file "gamepad_config_<device name>.json" of the device
\* with the given GUID: the devices' files differ
FleetConfigFile(guid) == IF guid % 2 = 1 THEN DefaultConfig ELSE ChordConfig

\* The samples a device reads: idle, or button 0 down with the hat up
FleetSamples ==
    {js \in Samples :
        /\ js.lY = 0
        /\ \A i \in ButtonIdx : i > 0 => ~js.rgbButtons[i]
        /\ js.rgbButtons[0] = (js.pov = 0)}

\* A GamepadDevice as Initialize leaves it when it returns true
FleetDevice(guid, cfg) ==
    [guid |-> guid, m_connected |-> TRUE, m_configManager |-> cfg,
     m_prevButtons |-> ResetState.prevButtons,
     m_prevPOV |-> ResetState.prevPOV,
     m_prevAxisDown |-> ResetState.prevAxisDown]

\* One entry of steps: the operation, the device's GUID, what the operation
\* read (a scan's instances, a poll's outcome and sample, a reconnection's
\* result) and the SendInput calls it made
FleetStep(op, guid, in, log) == [op |-> op, guid |-> guid, in |-> in, injected |-> log]

\* What EnumDevices reports, as in Enumerations; an attached instance that
\* is tracked already is skipped whatever it is, so it is drawn as absent
FleetEnumerations(devices) ==
    {att \in [Guids -> {"absent", "ok", "fail"}] :
        \A g \in Guids : IsDeviceAlreadyManaged(devices, g) => att[g] = "absent"}

\* EnumDevices itself succeeds in this specification
FleetScanInputs(devices) == [hr : {"S_OK"}, insts : FleetEnumerations(devices)]

\* EnumDevicesCallback on the instances from GUID g on
RECURSIVE FleetEnumDevicesFrom(_, _, _)
FleetEnumDevicesFrom(g, devices, insts) ==
    IF g > MaxDevices
    THEN devices
    ELSE IF insts[g] = "ok" /\ ~IsDeviceAlreadyManaged(devices, g)
    THEN FleetEnumDevicesFrom(g + 1, Append(devices, FleetDevice(g, FleetConfigFile(g))), insts)
    ELSE FleetEnumDevicesFrom(g + 1, devices, insts)

FleetScanForDevices(reg, directInput, in, now) ==
    IF directInput = "null"
    THEN reg
    ELSE LET enumerated == FleetEnumDevicesFrom(1, reg.devices, in.insts) IN
         IF FAILED(in.hr)
         THEN [reg EXCEPT !.devices = enumerated,
                          !.index = <<>>,
                          !.steps = Append(@, FleetStep("ScanForDevices", 0, in, <<>>))]
         ELSE [devices |-> CleanupDisconnectedDevices(enumerated),
               index |-> RebuildIndex(enumerated),
               lastScan |-> now,
               steps |-> Append(reg.steps, FleetStep("ScanForDevices", 0, in, <<>>))]

\* What one device's ProcessInput reads: the poll outcome and the sample
FrameInputs ==
    {in \in [po : PollOutcomes, js : FleetSamples \cup {ZeroState}] :
        (in.js = ZeroState) = FAILED(in.po.gdsHr)}

\* The InputProcessor members of a tracked device, as the mapper takes them
EdgeStateOf_First(devices, i) ==
    [prevButtons |-> devices[1].m_prevButtons, prevPOV |-> devices[1].m_prevPOV,
     prevAxisDown |-> devices[1].m_prevAxisDown, log |-> <<>>]

EdgeStateOf(devices, i) ==
    [prevButtons |-> devices[i].m_prevButtons, prevPOV |-> devices[i].m_prevPOV,
     prevAxisDown |-> devices[i].m_prevAxisDown, log |-> <<>>]

\* GamepadDevice::ProcessInput on the connected device at index i
FleetProcessInput(devices, i, in) ==
    IF SUCCEEDED(in.po.pollHr) /\ SUCCEEDED(in.po.gdsHr)
    THEN LET st == ProcessGamepadInput(in.js, devices[i].m_configManager,
                                       EdgeStateOf(devices, i))
         IN  [devices |-> [devices EXCEPT ![i].m_prevButtons = st.prevButtons,
                                          ![i].m_prevPOV = st.prevPOV,
                                          ![i].m_prevAxisDown = st.prevAxisDown],
              log |-> st.log]
    ELSE [devices |-> [devices EXCEPT ![i].m_connected = ConnectedAfterPoll(in.po)],
          log |-> <<>>]

\* The loop of ProcessAllDevices over m_devices, from index i
RECURSIVE FleetProcessDevicesFrom(_, _, _)
FleetProcessDevicesFrom(i, reg, in) ==
    IF i > Len(reg.devices)
    THEN reg
    ELSE IF PollsDevice(reg.devices[i]) /\ reg.devices[i].guid \in DOMAIN in
    THEN LET r == FleetProcessInput(reg.devices, i, in[reg.devices[i].guid]) IN
         FleetProcessDevicesFrom(i + 1,
            [reg EXCEPT !.devices = r.devices,
                        !.steps = Append(@, FleetStep("ProcessInput", reg.devices[i].guid,
                                                      in[reg.devices[i].guid], r.log))],
            in)
    ELSE FleetProcessDevicesFrom(i + 1, reg, in)

\* The loop of TryToReconnectDevices over m_devices, from index i
RECURSIVE FleetReconnectDevicesFrom(_, _, _, _)
FleetReconnectDevicesFrom(i, reg, directInput, ro) ==
    IF i > Len(reg.devices)
    THEN reg
    ELSE IF ~reg.devices[i].m_connected /\ directInput # "null"
            /\ reg.devices[i].guid \in DOMAIN ro
    THEN FleetReconnectDevicesFrom(i + 1,
            [reg EXCEPT !.devices[i].m_connected =
                            ConnectedAfterReconnect(ro[reg.devices[i].guid], FALSE),
                        !.steps = Append(@, FleetStep("TryToReconnect", reg.devices[i].guid,
                                                      ro[reg.devices[i].guid], <<>>))],
            directInput, ro)
    ELSE FleetReconnectDevicesFrom(i + 1, reg, directInput, ro)

FleetInitialize ==
    /\ lastOp' = "MultipleGamepadManager::Initialize"
    /\ UNCHANGED devVars
    /\ UNCHANGED keyVars
    /\ UNCHANGED bufVars
    /\ UNCHANGED tickCount
    /\ IF mgr_initialized
       THEN /\ steps' = <<>>
            /\ UNCHANGED <<m_directInput, mgr_initialized, m_devices,
                           m_deviceIndexByGUID, m_lastScanTime>>
       ELSE \E createHr \in OkOrFail :
              IF ~CreateDirectInput(createHr).ok
              THEN /\ steps' = <<>>
                   /\ m_directInput' = CreateDirectInput(createHr).directInput
                   /\ UNCHANGED <<mgr_initialized, m_devices,
                                  m_deviceIndexByGUID, m_lastScanTime>>
              ELSE \E in \in FleetScanInputs(m_devices) :
                     /\ m_directInput' = CreateDirectInput(createHr).directInput
                     /\ RegAssigned(FleetScanForDevices(RegAtEntry, "held", in, tickCount))
                     /\ mgr_initialized' = TRUE

FleetProcessAllDevices ==
    /\ lastOp' = "ProcessAllDevices"
    /\ UNCHANGED devVars
    /\ UNCHANGED keyVars
    /\ UNCHANGED bufVars
    /\ UNCHANGED <<m_directInput, mgr_initialized, tickCount>>
    /\ IF ~mgr_initialized
       THEN /\ steps' = <<>>
            /\ UNCHANGED <<m_devices, m_deviceIndexByGUID, m_lastScanTime>>
       ELSE LET elapsed == ScanIntervalElapsed(tickCount, m_lastScanTime) IN
            \E scan \in (IF elapsed THEN FleetScanInputs(m_devices) ELSE {NoScanInput}) :
              \E r1 \in {IF elapsed
                         THEN FleetScanForDevices(RegAtEntry, m_directInput, scan, tickCount)
                         ELSE RegAtEntry} :
                \E in \in [ConnectedGuids(r1.devices) -> FrameInputs] :
                  \E r2 \in {FleetProcessDevicesFrom(1, r1, in)} :
                    \E ro \in [DisconnectedGuids(r2.devices) -> BOOLEAN] :
                      RegAssigned(FleetReconnectDevicesFrom(1, r2, m_directInput, ro))

FleetShutdown == ManagerShutdown

NextFleet ==
    \/ FleetInitialize
    \/ FleetProcessAllDevices
    \/ FleetShutdown
    \/ AdvanceClock

SpecFleet == Init /\ [][NextFleet]_vars

(***************************************************************************)
(* KeyResolver: the key table, the numeric literals, and the debug string  *)
(* of a key sequence.                                                      *)
(***************************************************************************)
\* std::nullopt of std::optional<WORD>
NotFound == -1

DecimalDigits == <<"0", "1", "2", "3", "4", "5", "6", "7", "8", "9">>
HexDigits == <<"0", "1", "2", "3", "4", "5", "6", "7", "8", "9", "A", "B", "C", "D", "E", "F">>
LowerCase == <<"a", "b", "c", "d", "e", "f", "g", "h", "i", "j", "k", "l", "m", "n", "o", "p", "q", "r", "s", "t", "u", "v", "w", "x", "y", "z">>
UpperCase == <<"A", "B", "C", "D", "E", "F", "G", "H", "I", "J", "K", "L", "M", "N", "O", "P", "Q", "R", "S", "T", "U", "V", "W", "X", "Y", "Z">>

\* The position of character c in chars, 0 when it does not occur
IndexOf(chars, c) ==
    IF \E i \in DOMAIN chars : chars[i] = c
    THEN CHOOSE i \in DOMAIN chars : chars[i] = c
    ELSE 0

\* std::tolower in the "C" locale
tolower(c) ==
    IF IndexOf(UpperCase, c) > 0 THEN LowerCase[IndexOf(UpperCase, c)] ELSE c

\* std::to_string(i) for the function-key numbers
to_string(i) ==
    IF i < 10 THEN <<DecimalDigits[i + 1]>>
    ELSE <<DecimalDigits[(i \div 10) + 1], DecimalDigits[(i % 10) + 1]>>

\* The named entries createKeyMap adds one by one
NamedKeys ==
    { <<<<"s", "p", "a", "c", "e">>, VK_SPACE>>,
      <<<<"e", "n", "t", "e", "r">>, VK_RETURN>>,
      <<<<"e", "s", "c", "a", "p", "e">>, VK_ESCAPE>>,
      <<<<"t", "a", "b">>, VK_TAB>>,
      <<<<"b", "a", "c", "k", "s", "p", "a", "c", "e">>, VK_BACK>>,
      <<<<"d", "e", "l", "e", "t", "e">>, VK_DELETE>>,
      <<<<"c", "t", "r", "l">>, VK_CONTROL>>,
      <<<<"a", "l", "t">>, VK_MENU>>,
      <<<<"s", "h", "i", "f", "t">>, VK_SHIFT>>,
      <<<<"w", "i", "n">>, VK_LWIN>>,
      <<<<"l", "w", "i", "n">>, VK_LWIN>>,
      <<<<"r", "w", "i", "n">>, VK_RWIN>>,
      <<<<"u", "p">>, VK_UP>>,
      <<<<"d", "o", "w", "n">>, VK_DOWN>>,
      <<<<"l", "e", "f", "t">>, VK_LEFT>>,
      <<<<"r", "i", "g", "h", "t">>, VK_RIGHT>>,
      <<<<"p", "r", "i", "n", "t", "s", "c", "r", "e", "e", "n">>, VK_SNAPSHOT>>,
      <<<<"p", "r", "t", "s", "c">>, VK_SNAPSHOT>> }

\* KEY_MAP.find(name): the code of the entry createKeyMap made, or NotFound.
\* toupper('a') is 65 and '0' is 48.
KEY_MAP(name) ==
    IF Len(name) = 1 /\ IndexOf(LowerCase, name[1]) > 0
    THEN 64 + IndexOf(LowerCase, name[1])
    ELSE IF Len(name) = 1 /\ IndexOf(DecimalDigits, name[1]) > 0
    THEN 47 + IndexOf(DecimalDigits, name[1])
    ELSE IF \E e \in NamedKeys : e[1] = name
    THEN (CHOOSE e \in NamedKeys : e[1] = name)[2]
    ELSE IF \E i \in 1 .. 12 : name = <<"f">> \o to_string(i)
    THEN VK_F1 + ((CHOOSE i \in 1 .. 12 : name = <<"f">> \o to_string(i)) - 1)
    ELSE NotFound

\* A long long is held as four 16-bit limbs, least significant first, with
\* its sign apart: the magnitudes strtoll meets do not fit one model integer.
Limb == 65536
ZeroLimbs == <<0, 0, 0, 0>>

\* The value of c as a digit of the base, -1 when it is none
DigitValue(c, base) ==
    IF IndexOf(DecimalDigits, c) > 0 THEN IndexOf(DecimalDigits, c) - 1
    ELSE IF base = 16 /\ IndexOf(SubSeq(LowerCase, 1, 6), c) > 0
    THEN 9 + IndexOf(SubSeq(LowerCase, 1, 6), c)
    ELSE IF base = 16 /\ IndexOf(SubSeq(UpperCase, 1, 6), c) > 0
    THEN 9 + IndexOf(SubSeq(UpperCase, 1, 6), c)
    ELSE -1

\* acc * base + d on the limbs; a carry out of the top limb is an overflow
MulAdd(acc, base, d) ==
    LET t1 == acc.limbs[1] * base + d
        t2 == acc.limbs[2] * base + (t1 \div Limb)
        t3 == acc.limbs[3] * base + (t2 \div Limb)
        t4 == acc.limbs[4] * base + (t3 \div Limb)
    IN  [limbs |-> <<t1 % Limb, t2 % Limb, t3 % Limb, t4 % Limb>>,
         overflow |-> acc.overflow \/ (t4 \div Limb) > 0]

\* The digit loop of strtoll from position i: where it stopped and the sum
RECURSIVE Accumulate(_, _, _, _)
Accumulate(s, i, base, acc) ==
    IF i > Len(s) \/ DigitValue(s[i], base) < 0
    THEN [end |-> i, acc |-> acc]
    ELSE Accumulate(s, i + 1, base, MulAdd(acc, base, DigitValue(s[i], base)))

\* std::stoll(s, &pos, base): leading blanks, an optional sign, for base 16 an
\* optional 0x that a hex digit follows, then the digits. No digit at all
\* throws std::invalid_argument; a value outside [-2^63, 2^63 - 1] throws
\* std::out_of_range; otherwise pos is the number of characters consumed.
stoll(s, base) ==
    LET blanks == {i \in 1 .. Len(s) : \A j \in 1 .. i : s[j] = " "}
        start == Cardinality(blanks) + 1
        signed == start <= Len(s) /\ s[start] \in {"+", "-"}
        negative == signed /\ s[start] = "-"
        afterSign == IF signed THEN start + 1 ELSE start
        prefixed == /\ base = 16
                    /\ afterSign + 2 <= Len(s)
                    /\ s[afterSign] = "0"
                    /\ s[afterSign + 1] \in {"x", "X"}
                    /\ DigitValue(s[afterSign + 2], 16) >= 0
        first == IF prefixed THEN afterSign + 2 ELSE afterSign
        run == Accumulate(s, first, base, [limbs |-> ZeroLimbs, overflow |-> FALSE])
        limbs == run.acc.limbs
        tooBig == \/ run.acc.overflow
                  \/ limbs[4] > 32768
                  \/ limbs[4] = 32768 /\ ~negative
                  \/ limbs[4] = 32768 /\ <<limbs[1], limbs[2], limbs[3]>> # <<0, 0, 0>>
    IN  IF run.end = first
        THEN [thrown |-> "invalid_argument", pos |-> 0,
              negative |-> FALSE, limbs |-> ZeroLimbs]
        ELSE IF tooBig
        THEN [thrown |-> "out_of_range", pos |-> 0,
              negative |-> FALSE, limbs |-> ZeroLimbs]
        ELSE [thrown |-> "none", pos |-> run.end - 1,
              negative |-> negative, limbs |-> limbs]

\* static_cast<long>(long long): long has 32 bits on this platform, so the
\* result is the low 32 bits of the two's complement value, read as signed
static_cast_long(parsed) ==
    LET lo == parsed.limbs[1]
        hi == parsed.limbs[2]
        nlo == (Limb - lo) % Limb
        nhi == (Limb - 1 - hi + (IF lo = 0 THEN 1 ELSE 0)) % Limb
        ulo == IF parsed.negative THEN nlo ELSE lo
        uhi == IF parsed.negative THEN nhi ELSE hi
    IN  IF uhi >= 32768 THEN (uhi - Limb) * Limb + ulo ELSE uhi * Limb + ulo

\* KeyResolver::parseNumericKey
parseNumericKey(keyName) ==
    LET hex == /\ Len(keyName) > 2
               /\ SubSeq(keyName, 1, 2) \in {<<"0", "x">>, <<"0", "X">>}
        parsed == stoll(keyName, IF hex THEN 16 ELSE 10)
        long_val == static_cast_long(parsed)
    IN  IF parsed.thrown # "none" THEN NotFound
        ELSE IF parsed.pos = Len(keyName) /\ long_val >= 0 /\ long_val <= 65535
        THEN long_val
        ELSE NotFound

\* KeyResolver::resolve
resolve(keyName) ==
    LET lowerKeyName == [i \in 1 .. Len(keyName) |-> tolower(keyName[i])]
    IN  IF KEY_MAP(lowerKeyName) # NotFound
        THEN KEY_MAP(lowerKeyName)
        ELSE parseNumericKey(keyName)

\* The loop of resolveSequence from the i-th key on
RECURSIVE ResolveFrom(_, _, _)
ResolveFrom(keys, i, sequence) ==
    IF i > Len(keys) THEN sequence
    ELSE LET resolvedKey == resolve(keys[i])
         IN  ResolveFrom(keys, i + 1,
                         IF resolvedKey # NotFound
                         THEN Append(sequence, resolvedKey)
                         ELSE sequence)

\* Variant: the loop gives up at the first name that does not resolve
RECURSIVE ResolveUntilUnresolved(_, _, _)
ResolveUntilUnresolved(keys, i, sequence) ==
    IF i > Len(keys) \/ resolve(keys[i]) = NotFound THEN sequence
    ELSE ResolveUntilUnresolved(keys, i + 1, Append(sequence, resolve(keys[i])))

resolveSequence_StopAtUnresolved(keys) == ResolveUntilUnresolved(keys, 1, <<>>)

\* KeyResolver::resolveSequence
resolveSequence(keys) == ResolveFrom(keys, 1, <<>>)

\* The digits "%X" prints for n
RECURSIVE ToHex(_)
ToHex(n) ==
    IF n < 16 THEN <<HexDigits[n + 1]>>
    ELSE ToHex(n \div 16) \o <<HexDigits[(n % 16) + 1]>>

\* The digits "%d" prints for n
RECURSIVE ToDecimal(_)
ToDecimal(n) ==
    IF n < 10 THEN <<DecimalDigits[n + 1]>>
    ELSE ToDecimal(n \div 10) \o <<DecimalDigits[(n % 10) + 1]>>

\* Variant: the code is printed in decimal after the 0x
FormatKey_Decimal(vk) ==
    <<"0", "x">> \o (IF vk < 10 THEN <<"0">> ELSE <<>>) \o ToDecimal(vk)

\* swprintf_s(buf, L"0x%02X", vks[i])
FormatKey(vk) ==
    <<"0", "x">> \o (IF vk < 16 THEN <<"0">> ELSE <<>>) \o ToHex(vk)

\* The loop that builds vkSeq: the formatted codes with "+" between them
RECURSIVE FormatFrom(_, _, _)
FormatFrom(vks, i, str) ==
    IF i > Len(vks) THEN str
    ELSE FormatFrom(vks, i + 1,
                    str \o (IF i > 1 THEN <<"+">> ELSE <<>>) \o FormatKey(vks[i]))

\* The key names of the inputs: table names, literals at the edges of WORD,
\* of 32 bits and of 64 bits, and strings that are no literal
KeyNames ==
    { <<"a">>,
      <<"U", "p">>,
      <<"F", "1", "2">>,
      <<"7">>,
      <<"6", "5">>,
      <<"6", "5", "5", "3", "5">>,
      <<"6", "5", "5", "3", "6">>,
      <<"0", "x", "4", "1">>,
      <<"0", "x", "0", "D">>,
      <<"0", "X", "f", "f", "F", "F">>,
      <<"0", "x", "1", "0", "0", "0", "0">>,
      <<"-", "1">>,
      <<"-", "0">>,
      <<"4", "2", "9", "4", "9", "6", "7", "2", "9", "6">>,
      <<"4", "2", "9", "4", "9", "6", "7", "3", "6", "1">>,
      <<"-", "4", "2", "9", "4", "9", "6", "7", "2", "9", "5">>,
      <<"0", "x", "1", "0", "0", "0", "0", "0", "0", "4", "1">>,
      <<"9", "2", "2", "3", "3", "7", "2", "0", "3", "6", "8", "5", "4", "7", "7", "5", "8", "0", "7">>,
      <<"9", "2", "2", "3", "3", "7", "2", "0", "3", "6", "8", "5", "4", "7", "7", "5", "8", "0", "8">>,
      <<"0", "x", "F", "F", "F", "F", "F", "F", "F", "F", "F", "F", "F", "F", "F", "F", "F", "F", "F">>,
      <<" ", "6", "5">>,
      <<"+", "6", "5">>,
      <<"6", "5", " ">>,
      <<"1", "2", "a">>,
      <<"0", "x">>,
      <<"0", "x", "Z", "1">>,
      <<>>,
      <<"n", "o", "k", "e", "y">> }

\* How many names one call of resolveSequence is given at most
MaxNames == 2

KeyNameLists ==
    UNION { [1 .. n -> KeyNames] : n \in 0 .. MaxNames }

\* The inputs of resolveSequence are drawn here; the objects are as constructed
InitKeys ==
    /\ InitObjects
    /\ keyNames \in KeyNameLists
    /\ resolvedKeys = <<>>
    /\ keyCodes = <<>>
    /\ vkSeq = <<>>

\* A caller (compileKeyMappings) resolves the names of one mapping
DoResolveSequence ==
    /\ lastOp = "GamepadDevice"
    /\ lastOp' = "resolveSequence"
    /\ resolvedKeys' = [i \in 1 .. Len(keyNames) |-> resolve(keyNames[i])]
    /\ keyCodes' = resolveSequence(keyNames)
    /\ UNCHANGED <<keyNames, vkSeq>>
    /\ UNCHANGED bufVars
    /\ UNCHANGED devVars
    /\ UNCHANGED regVars

\* ProcessButtonInternal builds the debug string of the resolved sequence
DoFormat ==
    /\ lastOp = "resolveSequence"
    /\ lastOp' = "vkSeq"
    /\ vkSeq' = FormatFrom(keyCodes, 1, <<>>)
    /\ UNCHANGED <<keyNames, resolvedKeys, keyCodes>>
    /\ UNCHANGED bufVars
    /\ UNCHANGED devVars
    /\ UNCHANGED regVars

NextKeys ==
    \/ DoResolveSequence
    \/ DoFormat

SpecKeys == InitKeys /\ [][NextKeys]_vars

(***************************************************************************)
(* DisplayBuffer.  A call is the statements between its lock_guard and the *)
(* end of its scope; a thread runs them one by one, and threads interleave.*)
(***************************************************************************)
BufferLine(thread, op, part) == [by |-> thread, op |-> op, part |-> part]

AddLineStmt(line) == [stmt |-> "AddLineInternal", line |-> line, maxLines |-> 0]

\* The AddLineInternal calls of one AddGamepadState: the name, the axes, the
\* sliders, four hats and the buttons
GamepadStateLines(thread) ==
    [k \in 1 .. (3 + 4 + 1) |-> AddLineStmt(BufferLine(thread, "AddGamepadState", k))]

\* The AddLineInternal calls of one AddGamepadInfo: a blank line unless the
\* buffer is empty, the header, and three lines or one
GamepadInfoLines(thread, empty, connected) ==
    LET n == (IF empty THEN 0 ELSE 1) + 1 + (IF connected THEN 3 ELSE 1)
    IN  [k \in 1 .. n |-> AddLineStmt(BufferLine(thread, "AddGamepadInfo", k))]

\* The calls a writer makes: Clear, SetMaxLines, AddLine, AddFormattedLine,
\* AddGamepadInfo and AddGamepadState
WriterCalls ==
    [op : {"Clear", "AddLine", "AddFormattedLine", "AddGamepadState"},
     connected : {TRUE}, maxLines : {0}]
    \cup [op : {"AddGamepadInfo"}, connected : BOOLEAN, maxLines : {0}]
    \cup [op : {"SetMaxLines"}, connected : {TRUE}, maxLines : {0, APP_MAX_LINES}]

\* The statements of the call after its lock_guard
BodyOf(thread, call, lines) ==
    IF call.op = "Clear" THEN <<[stmt |-> "clear", line |-> <<>>, maxLines |-> 0]>>
    ELSE IF call.op = "SetMaxLines"
    THEN <<[stmt |-> "SetMaxLines", line |-> <<>>, maxLines |-> call.maxLines]>>
    ELSE IF call.op = "AddGamepadState" THEN GamepadStateLines(thread)
    ELSE IF call.op = "AddGamepadInfo"
    THEN GamepadInfoLines(thread, lines = <<>>, call.connected)
    ELSE <<AddLineStmt(BufferLine(thread, call.op, 1))>>

\* Variant: AddFormattedLine calls AddLineInternal itself, without a lock
TakesMutex_NotFormatted(op) == op # "AddFormattedLine"

\* Every mutating member function starts with a lock_guard on m_mutex
\* (AddFormattedLine through AddLine)
TakesMutex(op) == TRUE

TrimToMaxLines(lines, maxLines) ==
    IF Len(lines) > maxLines
    THEN SubSeq(lines, Len(lines) - maxLines + 1, Len(lines))
    ELSE lines

\* A writer enters a call: the lock_guard waits until the mutex is free
BufferLock ==
    \E t \in Writers, call \in WriterCalls :
        /\ threads[t] = NoCall
        /\ TakesMutex(call.op) => m_mutex = {}
        /\ m_totalLinesAdded + Len(GamepadStateLines(t)) <= MaxLinesAdded
        /\ m_mutex' = IF TakesMutex(call.op) THEN m_mutex \cup {t} ELSE m_mutex
        /\ threads' = [threads EXCEPT ![t] =
                          [op |-> call.op, todo |-> BodyOf(t, call, m_lines)]]
        /\ UNCHANGED <<m_lines, m_maxLines, m_totalLinesAdded>>
        /\ UNCHANGED <<devVars, regVars, keyVars, lastOp>>

\* A writer runs the next statement of its call
BufferStep ==
    \E t \in Writers :
        /\ threads[t].todo # <<>>
        /\ LET s == Head(threads[t].todo) IN
           /\ m_maxLines' = IF s.stmt = "SetMaxLines"
                             THEN clamp(s.maxLines, MIN_MAX_LINES, MAX_MAX_LINES)
                             ELSE m_maxLines
           /\ m_lines' = IF s.stmt = "clear" THEN <<>>
                          ELSE IF s.stmt = "SetMaxLines"
                          THEN TrimToMaxLines(m_lines, m_maxLines')
                          ELSE TrimToMaxLines(Append(m_lines, s.line), m_maxLines)
           /\ m_totalLinesAdded' = IF s.stmt = "AddLineInternal"
                                    THEN m_totalLinesAdded + 1
                                    ELSE m_totalLinesAdded
        /\ threads' = [threads EXCEPT ![t].todo = Tail(@)]
        /\ UNCHANGED m_mutex
        /\ UNCHANGED <<devVars, regVars, keyVars, lastOp>>

\* A writer leaves its call: the lock_guard releases the mutex
BufferUnlock ==
    \E t \in Writers :
        /\ threads[t].op # "none"
        /\ threads[t].todo = <<>>
        /\ m_mutex' = m_mutex \ {t}
        /\ threads' = [threads EXCEPT ![t] = NoCall]
        /\ UNCHANGED <<m_lines, m_maxLines, m_totalLinesAdded>>
        /\ UNCHANGED <<devVars, regVars, keyVars, lastOp>>

\* GetLines: the lock is taken, the reference to m_lines is returned and the
\* lock is released; the caller then holds the reference
GetLines ==
    /\ threads[PaintThread] = NoCall
    /\ m_mutex = {}
    /\ threads' = [threads EXCEPT ![PaintThread] =
                      [op |-> "GetLines", todo |-> <<>>]]
    /\ UNCHANGED <<m_lines, m_maxLines, m_totalLinesAdded, m_mutex>>
    /\ UNCHANGED <<devVars, regVars, keyVars, lastOp>>

\* The WM_PAINT handler has read the lines through the reference: its use
\* of the vector lasts from GetLines to this step, with no lock held
ReadLines ==
    /\ threads[PaintThread].op = "GetLines"
    /\ threads' = [threads EXCEPT ![PaintThread] = NoCall]
    /\ UNCHANGED <<m_lines, m_maxLines, m_totalLinesAdded, m_mutex>>
    /\ UNCHANGED <<devVars, regVars, keyVars, lastOp>>

NextBuffer ==
    \/ BufferLock
    \/ BufferStep
    \/ BufferUnlock
    \/ GetLines
    \/ ReadLines

SpecBuffer == Init /\ [][NextBuffer]_vars

(***************************************************************************)
(* Vocabulary of the properties.                                           *)
(***************************************************************************)
\* The last operation was a ProcessInput whose poll and state read succeeded
FrameProcessed(op, cs) ==
    /\ op = "ProcessInput"
    /\ \E k \in 1 .. Len(cs) : cs[k] = Call("GetDeviceState", "S_OK")

\* The result of the named platform call in cs, or "NONE" if it was not made
ResultOf(cs, name) ==
    IF \E k \in 1 .. Len(cs) : cs[k].call = name
    THEN cs[CHOOSE k \in 1 .. Len(cs) : cs[k].call = name].hr
    ELSE "NONE"

\* The injections of log caused by the logical input (kind, index)
EventsOf(log, kind, index) ==
    SelectSeq(log, LAMBDA e : e.kind = kind /\ e.index = index)

\* The key codes of one injection, in the order SendInput receives them
KeysOf(e) == [j \in 1 .. Len(e.inputs) |-> e.inputs[j].wVk]

RECURSIVE Reversed(_)
Reversed(seq) == IF seq = <<>> THEN <<>> ELSE Append(Reversed(Tail(seq)), Head(seq))

\* The key sequence the mapping gives the logical input (kind, index)
MappedKeys(cfg, kind, index) ==
    IF cfg = NoConfig THEN <<>>
    ELSE CASE kind = "Button" -> getButtonKeys(cfg, index)
           [] kind = "POV" -> getDpadKeys(cfg, index)
           [] kind = "Axis" -> getStickKeys(cfg, index)

AllReleased ==
    /\ \A i \in ButtonIdx : ~m_prevButtons[i]
    /\ \A d \in AxisDirection : ~m_prevAxisDown[d]

(***************************************************************************)
(* C1. In a processed frame, a mapped button whose bit differs from the    *)
(* stored bit injects exactly one event of its key sequence, a PRESS when  *)
(* the bit reads pressed and a RELEASE when it reads released, and the bit *)
(* is stored; a mapped button whose bit equals the stored bit injects      *)
(* nothing.  Hence released, pressed, released over consecutive frames     *)
(* gives one PRESS in the first pressed frame and one RELEASE in the first *)
(* released frame.                                                         *)
(***************************************************************************)
C1_ButtonEdges ==
    [][FrameProcessed(lastOp', calls') =>
        \A i \in ButtonIdx :
            getButtonKeys(m_configManager, i) # <<>> =>
                LET bit == m_currentState'.rgbButtons[i]
                    ev == EventsOf(injected', "Button", i)
                IN  /\ m_prevButtons'[i] = bit
                    /\ IF bit = m_prevButtons[i]
                       THEN ev = <<>>
                       ELSE /\ Len(ev) = 1
                            /\ ev[1].down = bit
                            /\ \A j \in 1 .. Len(ev[1].inputs) :
                                   ev[1].inputs[j].dwFlags = (IF bit THEN 0 ELSE KEYEVENTF_KEYUP)
                            /\ Len(ev[1].inputs) = Len(getButtonKeys(m_configManager, i))
      ]_vars

\* A frame injected the RELEASE of a mapped button: it was pressed in an earlier frame
C1_Witness ==
    /\ FrameProcessed(lastOp, calls)
    /\ \E k \in 1 .. Len(injected) :
           /\ injected[k].kind = "Button"
           /\ ~injected[k].down
           /\ ~m_currentState.rgbButtons[injected[k].index]

(***************************************************************************)
(* C2. A dpad key event for direction d is injected in a processed frame   *)
(* only if the hat-derived boolean of d differs from its value in the      *)
(* preceding poll (m_prevPOV is the hat angle of the preceding poll, or    *)
(* centred before the first one).                                          *)
(***************************************************************************)
C2_DpadOnlyOnHatChange ==
    [][FrameProcessed(lastOp', calls') =>
        \A d \in AxisDirection :
            EventsOf(injected', "POV", d) # <<>> =>
                POVActive(m_currentState'.pov, d) # POVActive(m_prevPOV, d)
      ]_vars

(***************************************************************************)
(* C3. After a processed frame that reads the hat centred or outside the   *)
(* wedge of d, the dpad key sequence of d is not left pressed: a PRESS     *)
(* injected for it earlier has been followed by a RELEASE.                 *)
(***************************************************************************)
C3_DpadReleasedWhenHatLeaves ==
    FrameProcessed(lastOp, calls) =>
        \A d \in AxisDirection :
            ~POVActive(m_currentState.pov, d) => <<"POV", d>> \notin keysDown

(***************************************************************************)
(* C4. When a TryToReconnect has made a disconnected controller connected, *)
(* the stored button bits and the four direction slots are all released.   *)
(***************************************************************************)
C4_ResetOnReconnect ==
    (lastOp = "TryToReconnect" /\ calls # <<>> /\ m_connected /\ m_inputProcessor)
        => AllReleased

(***************************************************************************)
(* C5. A ProcessInput whose GetDeviceState failed injected nothing; the    *)
(* controller is disconnected if the error was input-lost, not-acquired or *)
(* unplugged, and still connected after any other error.                   *)
(***************************************************************************)
C5_StateReadFailure ==
    (lastOp = "ProcessInput" /\ ResultOf(calls, "GetDeviceState") \notin {"NONE", "S_OK"}) =>
        /\ injected = <<>>
        /\ m_connected =
             (ResultOf(calls, "GetDeviceState")
                 \notin {"DIERR_INPUTLOST", "DIERR_NOTACQUIRED", "DIERR_UNPLUGGED"})

C5_Witness ==
    /\ lastOp = "ProcessInput"
    /\ ResultOf(calls, "GetDeviceState") = "DIERR_UNPLUGGED"
    /\ ~m_connected
    /\ \E i \in ButtonIdx : m_prevButtons[i]

(***************************************************************************)
(* C6. After GetDeviceState failed with unplugged, input-lost or           *)
(* not-acquired the controller holds no device handle.                     *)
(***************************************************************************)
C6_HandleDroppedOnLoss ==
    (lastOp = "ProcessInput"
       /\ ResultOf(calls, "GetDeviceState")
             \in {"DIERR_INPUTLOST", "DIERR_NOTACQUIRED", "DIERR_UNPLUGGED"})
        => m_device = "null"

(***************************************************************************)
(* C7. A ProcessInput whose Poll failed attempted an Acquire.  If that     *)
(* Acquire failed, the frame read no state and injected nothing, and the   *)
(* controller is disconnected exactly when the error was input-lost or     *)
(* not-acquired; after any other Acquire error the next ProcessInput polls *)
(* again, and acquires again if that Poll fails.                           *)
(***************************************************************************)
C7_AcquireFailure ==
    [][/\ (lastOp' = "ProcessInput" /\ ResultOf(calls', "Poll") \notin {"NONE", "S_OK"}) =>
            /\ Len(calls') >= 2
            /\ calls'[1].call = "Poll"
            /\ calls'[2].call = "Acquire"
            /\ calls'[2].hr # "S_OK" =>
                   /\ m_connected' = (calls'[2].hr \notin {"DIERR_INPUTLOST", "DIERR_NOTACQUIRED"})
                   /\ ResultOf(calls', "GetDeviceState") = "NONE"
                   /\ m_currentState' = m_currentState
                   /\ injected' = <<>>
       /\ (/\ lastOp = "ProcessInput"
           /\ ResultOf(calls, "Acquire") \notin {"NONE", "S_OK", "DIERR_INPUTLOST", "DIERR_NOTACQUIRED"}
           /\ lastOp' = "ProcessInput") =>
            /\ calls' # <<>>
            /\ calls'[1].call = "Poll"
            /\ calls'[1].hr # "S_OK" => (Len(calls') >= 2 /\ calls'[2].call = "Acquire")
      ]_vars

\* Poll failed, Acquire failed with another error, and the controller is still connected
C7_Witness ==
    /\ lastOp = "ProcessInput"
    /\ ResultOf(calls, "Poll") = "DIERR_NOTACQUIRED"
    /\ ResultOf(calls, "Acquire") = "E_FAIL"
    /\ m_connected

(***************************************************************************)
(* C8. A TryToReconnect on a disconnected controller starts by re-creating *)
(* the device and makes the controller connected exactly when CreateDevice,*)
(* SetDataFormat, SetCooperativeLevel and Acquire all succeed; whenever a  *)
(* live controller is disconnected, a TryToReconnect that connects it is   *)
(* possible.                                                               *)
(***************************************************************************)
ReconnectSucceeded(cs) ==
    /\ ResultOf(cs, "CreateDevice") = "S_OK"
    /\ ResultOf(cs, "SetDataFormat") = "S_OK"
    /\ ResultOf(cs, "SetCooperativeLevel") = "S_OK"
    /\ ResultOf(cs, "Acquire") = "S_OK"

C9_NoOpWhenDisconnected ==
    [][(lastOp' = "ProcessInput" /\ ~m_connected) =>
            /\ calls' = <<>>
            /\ injected' = <<>>
            /\ UNCHANGED <<m_currentState, m_prevButtons, m_prevPOV, m_prevAxisDown,
                           m_connected, m_acquired, m_device, devAcquired, keysDown>>
      ]_vars

\* ProcessInput has run on an initialized, disconnected controller
C9_Witness ==
    /\ lastOp = "ProcessInput"
    /\ calls = <<>>
    /\ ~m_connected
    /\ m_inputProcessor
    /\ lifecycle = "live"

(***************************************************************************)
(* C10. Every injection belongs to a non-empty mapped key sequence         *)
(* [k1..kn]: a press passes exactly the n key-downs k1..kn in that order,  *)
(* a release exactly the n key-ups kn..k1.                                 *)
(***************************************************************************)
C10_ChordOrder ==
    \A k \in 1 .. Len(injected) :
        LET e == injected[k]
            vks == MappedKeys(m_configManager, e.kind, e.index)
        IN  /\ vks # <<>>
            /\ Len(e.inputs) = Len(vks)
            /\ IF e.down
               THEN /\ KeysOf(e) = vks
                    /\ \A j \in 1 .. Len(e.inputs) : e.inputs[j].dwFlags = 0
               ELSE /\ KeysOf(e) = Reversed(vks)
                    /\ \A j \in 1 .. Len(e.inputs) : e.inputs[j].dwFlags = KEYEVENTF_KEYUP

\* The release of the three-key chord was injected
C10_Witness ==
    \E k \in 1 .. Len(injected) :
        /\ ~injected[k].down
        /\ KeysOf(injected[k]) = <<VK_DELETE, VK_MENU, VK_CONTROL>>

(***************************************************************************)
(* C11. In the injections of one frame, every event caused by a button     *)
(* precedes every event caused by the hat, every hat event precedes every  *)
(* stick event, and the button events are in ascending button index.       *)
(***************************************************************************)
KindRank(kind) ==
    CASE kind = "Button" -> 0
      [] kind = "POV" -> 1
      [] kind = "Axis" -> 2

C11_FrameOrder ==
    \A j, k \in 1 .. Len(injected) :
        j < k =>
            /\ KindRank(injected[j].kind) <= KindRank(injected[k].kind)
            /\ (injected[j].kind = "Button" /\ injected[k].kind = "Button")
                   => injected[j].index < injected[k].index

\* One frame injected events of two buttons, of the hat and of the stick
C11_Witness ==
    /\ FrameProcessed(lastOp, calls)
    /\ EventsOf(injected, "Button", 0) # <<>>
    /\ EventsOf(injected, "Button", 1) # <<>>
    /\ \E k \in 1 .. Len(injected) : injected[k].kind = "POV"
    /\ \E k \in 1 .. Len(injected) : injected[k].kind = "Axis"

(***************************************************************************)
(* C12. In the injections of one frame the hat's events are in the order   *)
(* up, down, left, right.  As stated for both sources: the stick's events  *)
(* are in the order up, down, left, right too.  As the code emits them:    *)
(* the stick's events are in the order left, right, up, down.              *)
(***************************************************************************)
UpDownLeftRight(d) ==
    CASE d = AX_UP -> 0
      [] d = AX_DOWN -> 1
      [] d = AX_LEFT -> 2
      [] d = AX_RIGHT -> 3

LeftRightUpDown(d) ==
    CASE d = AX_LEFT -> 0
      [] d = AX_RIGHT -> 1
      [] d = AX_UP -> 2
      [] d = AX_DOWN -> 3

\* The claim as stated
C12_DirectionOrder ==
    \A j, k \in 1 .. Len(injected) :
        (j < k /\ injected[j].kind = injected[k].kind /\ injected[j].kind \in {"POV", "Axis"})
            => UpDownLeftRight(injected[j].index) < UpDownLeftRight(injected[k].index)

\* The claim as amended
C12_DirectionOrderAmended ==
    \A j, k \in 1 .. Len(injected) :
        (j < k /\ injected[j].kind = injected[k].kind) =>
            /\ injected[j].kind = "POV"
                  => UpDownLeftRight(injected[j].index) < UpDownLeftRight(injected[k].index)
            /\ injected[j].kind = "Axis"
                  => LeftRightUpDown(injected[j].index) < LeftRightUpDown(injected[k].index)

\* One frame injected two hat events and then two stick events, the stick's
\* left or right before its up or down
C12_Witness ==
    /\ FrameProcessed(lastOp, calls)
    /\ Len(injected) = 4
    /\ injected[1].kind = "POV" /\ injected[2].kind = "POV"
    /\ injected[3].kind = "Axis" /\ injected[3].index \in {AX_LEFT, AX_RIGHT}
    /\ injected[4].kind = "Axis" /\ injected[4].index \in {AX_UP, AX_DOWN}

(***************************************************************************)
(* C13. In a processed frame the hat drives direction d as active exactly  *)
(* when its angle lies in the wedge of d (up: 0..4500 and 31500..35999,    *)
(* right: 4500..13500, down: 13500..22500, left: 22500..31500), and the    *)
(* centred value lies in no wedge: a mapped direction d gets one dpad      *)
(* event exactly when that differs from its slot, a PRESS when the angle   *)
(* is in the wedge and a RELEASE when it is not.  From released slots a    *)
(* diagonal angle presses exactly two directions, any other angle exactly  *)
(* one, and the centred value none.                                        *)
(***************************************************************************)
InWedge(a, d) ==
    CASE d = AX_UP -> (a \in 0 .. 4500 \/ a \in 31500 .. 35999)
      [] d = AX_RIGHT -> a \in 4500 .. 13500
      [] d = AX_DOWN -> a \in 13500 .. 22500
      [] d = AX_LEFT -> a \in 22500 .. 31500

\* The directions for which log holds a dpad PRESS
DpadPressed(log) ==
    {d \in AxisDirection : \E k \in 1 .. Len(log) :
        log[k].kind = "POV" /\ log[k].index = d /\ log[k].down}

AllDpadMapped(cfg) == \A d \in AxisDirection : MappedKeys(cfg, "POV", d) # <<>>

SlotsReleased(slots) == \A d \in AxisDirection : ~slots[d]

C13_HatWedges ==
    [][FrameProcessed(lastOp', calls') =>
        LET a == m_currentState'.pov IN
        /\ \A d \in AxisDirection :
              LET ev == EventsOf(injected', "POV", d) IN
              /\ (ev # <<>>) <=> (/\ MappedKeys(m_configManager, "POV", d) # <<>>
                                  /\ InWedge(a, d) # m_prevAxisDown[d])
              /\ ev # <<>> => (Len(ev) = 1 /\ ev[1].down = InWedge(a, d))
        /\ (AllDpadMapped(m_configManager) /\ SlotsReleased(m_prevAxisDown)) =>
              Cardinality(DpadPressed(injected')) =
                  (IF a = POV_CENTERED THEN 0
                   ELSE IF a \in {4500, 13500, 22500, 31500} THEN 2 ELSE 1)
      ]_vars

\* The hat at 315 degrees pressed up and left
C13_Witness ==
    /\ FrameProcessed(lastOp, calls)
    /\ m_currentState.pov = 31500
    /\ DpadPressed(injected) = {AX_UP, AX_LEFT}

(***************************************************************************)
(* C14. From released slots, with every dpad direction mapped, a frame     *)
(* that reads the hat at 0 presses up only and one that reads 9000 presses *)
(* right only.  As stated: one that reads 13500 presses down only.  As the *)
(* code does it: one that reads 13500 presses down and right.              *)
(***************************************************************************)
\* The claim as stated
C14_HatBoundaries ==
    [][(/\ FrameProcessed(lastOp', calls')
        /\ AllDpadMapped(m_configManager)
        /\ SlotsReleased(m_prevAxisDown)) =>
            /\ m_currentState'.pov = 0 => DpadPressed(injected') = {AX_UP}
            /\ m_currentState'.pov = 9000 => DpadPressed(injected') = {AX_RIGHT}
            /\ m_currentState'.pov = 13500 => DpadPressed(injected') = {AX_DOWN}
      ]_vars

\* The claim as amended
C14_HatBoundariesAmended ==
    [][(/\ FrameProcessed(lastOp', calls')
        /\ AllDpadMapped(m_configManager)
        /\ SlotsReleased(m_prevAxisDown)) =>
            /\ m_currentState'.pov = 0 => DpadPressed(injected') = {AX_UP}
            /\ m_currentState'.pov = 9000 => DpadPressed(injected') = {AX_RIGHT}
            /\ m_currentState'.pov = 13500 => DpadPressed(injected') = {AX_DOWN, AX_RIGHT}
      ]_vars

\* The hat at 135 degrees pressed down and right
C14_Witness ==
    /\ FrameProcessed(lastOp, calls)
    /\ m_currentState.pov = 13500
    /\ DpadPressed(injected) = {AX_DOWN, AX_RIGHT}
    /\ Len(EventsOf(injected, "POV", AX_DOWN)) = 1
    /\ Len(EventsOf(injected, "POV", AX_RIGHT)) = 1

StickBeyond(js, T, d) ==
    CASE d = AX_LEFT -> js.lX < -T
      [] d = AX_RIGHT -> js.lX > T
      [] d = AX_UP -> js.lY < -T
      [] d = AX_DOWN -> js.lY > T

\* The injections of log for direction d, from the hat or from the stick
DirectionEvents(log, d) ==
    SelectSeq(log, LAMBDA e : e.kind \in {"POV", "Axis"} /\ e.index = d)

DirectionMapped(cfg, d) ==
    MappedKeys(cfg, "POV", d) # <<>> \/ MappedKeys(cfg, "Axis", d) # <<>>

BothActive(js, cfg, d) ==
    /\ cfg # NoConfig
    /\ InWedge(js.pov, d)
    /\ StickBeyond(js, cfg.stick_threshold, d)

C16_NoDoubleFire ==
    [][FrameProcessed(lastOp', calls') =>
        \A d \in AxisDirection :
            LET ev == DirectionEvents(injected', d) IN
            /\ (/\ ~m_prevAxisDown[d]
                /\ <<"POV", d>> \notin keysDown
                /\ <<"Axis", d>> \notin keysDown
                /\ DirectionMapped(m_configManager, d)
                /\ BothActive(m_currentState', m_configManager, d))
                  => (Len(ev) = 1 /\ ev[1].down)
            /\ (/\ FrameProcessed(lastOp, calls)
                /\ BothActive(m_currentState, m_configManager, d)
                /\ BothActive(m_currentState', m_configManager, d))
                  => ev = <<>>
      ]_vars

(***************************************************************************)
(* C17. When a ScanForDevices whose EnumDevices succeeded returns, every   *)
(* tracked controller is connected, and no controller that was tracked and *)
(* disconnected when the scan started is still tracked.  This holds for a  *)
(* scan called directly, for the scan of Initialize and for the rescan of  *)
(* a ProcessAllDevices tick.                                               *)
(***************************************************************************)
TrackedGuids(devices) == {devices[i].guid : i \in 1 .. Len(devices)}

AllConnected(devices) == \A i \in 1 .. Len(devices) : devices[i].m_connected

\* The step of a scan whose enumeration succeeded
ScanSucceeded(step) == step.op = "ScanForDevices" /\ step.result = "S_OK"

C17_ScanPrunes ==
    [][\A k \in 1 .. Len(steps') :
          ScanSucceeded(steps'[k]) =>
              /\ AllConnected(steps'[k].devices)
              /\ TrackedGuids(steps'[k].devices) \cap DisconnectedGuids(m_devices) = {}
              /\ lastOp' \in {"ScanForDevices", "MultipleGamepadManager::Initialize"}
                    => m_devices' = steps'[k].devices
      ]_vars

\* A scan has returned with a device tracked and another one pruned
C17_Witness ==
    /\ lastOp = "ScanForDevices"
    /\ steps # <<>>
    /\ ScanSucceeded(steps[Len(steps)])
    /\ m_devices # <<>>
    /\ \E g \in DOMAIN m_deviceIndexByGUID : g \notin TrackedGuids(m_devices)

(***************************************************************************)
(* C18. In a scan, the callback of an enumerated instance skips it exactly *)
(* when its GUID was tracked when the scan started; every other instance   *)
(* is initialized, and is tracked when the scan returns exactly when its   *)
(* Initialize succeeded, also when an instance enumerated before it        *)
(* failed.  Every callback is followed by the end of its scan.             *)
(***************************************************************************)
C18_EnumerationAddsInitialized ==
    [][\A k \in 1 .. Len(steps') :
          steps'[k].op = "EnumDevicesCallback" =>
              \E n \in (k + 1) .. Len(steps') :
                  /\ steps'[n].op = "ScanForDevices"
                  /\ \A j \in (k + 1) .. (n - 1) : steps'[j].op = "EnumDevicesCallback"
                  /\ (steps'[k].result = "managed")
                        <=> (steps'[k].guid \in TrackedGuids(m_devices))
                  /\ steps'[k].result = "initialized"
                        => steps'[k].guid \in TrackedGuids(steps'[n].devices)
                  /\ steps'[k].result = "failed"
                        => steps'[k].guid \notin TrackedGuids(steps'[n].devices)
      ]_vars

\* Initialize failed for the first enumerated instance and the second was added
C18_Witness ==
    /\ Len(steps) >= 3
    /\ steps[1].op = "EnumDevicesCallback" /\ steps[1].result = "failed"
    /\ steps[2].op = "EnumDevicesCallback" /\ steps[2].result = "initialized"
    /\ steps[3].op = "ScanForDevices"
    /\ steps[2].guid \in TrackedGuids(m_devices)
    /\ steps[1].guid \notin TrackedGuids(m_devices)

(***************************************************************************)
(* C19. A ProcessAllDevices tick of an initialized manager rescans first,  *)
(* and only if more than the scan interval has passed since the last scan; *)
(* then it calls ProcessInput once on each controller that is connected    *)
(* after the rescan, and then TryToReconnect once on each controller that  *)
(* is disconnected after the processing.  So a controller that loses its   *)
(* device in the tick gets its reconnection attempt in the same tick, and  *)
(* a controller reconnected in the tick is not polled in it.               *)
(***************************************************************************)
StepRank(op) ==
    CASE op = "EnumDevicesCallback" -> 0
      [] op = "ScanForDevices" -> 0
      [] op = "ProcessInput" -> 1
      [] op = "TryToReconnect" -> 2

\* The positions and the GUIDs of the steps of log with the given operation
StepsOf(log, op) == {j \in 1 .. Len(log) : log[j].op = op}

StepGuids(log, op) == {log[k].guid : k \in StepsOf(log, op)}

\* The devices tracked after the rescan of the tick, if it made one
AfterRescan(log, devices) ==
    IF \E k \in 1 .. Len(log) : log[k].op = "ScanForDevices"
    THEN log[CHOOSE k \in 1 .. Len(log) : log[k].op = "ScanForDevices"].devices
    ELSE devices

\* The GUIDs whose ProcessInput in log left the device disconnected
LostInTick(log) ==
    {log[k].guid : k \in {j \in 1 .. Len(log) :
        log[j].op = "ProcessInput" /\ log[j].result = "disconnected"}}

C19_TickOrder ==
    [][(lastOp' = "ProcessAllDevices" /\ mgr_initialized) =>
        \A log \in {steps'} :
        \A polled \in {AfterRescan(log, m_devices)} :
        \A inputs \in {StepsOf(log, "ProcessInput")} :
        \A retries \in {StepsOf(log, "TryToReconnect")} :
        \A reconnected \in {{log[k].guid : k \in {r \in retries : log[r].result = "connected"}}} :
        /\ (\E k \in 1 .. Len(log) : log[k].op = "ScanForDevices")
              <=> (tickCount - m_lastScanTime > 5000)
        /\ \A k \in 1 .. Len(log) - 1 :
              StepRank(log[k].op) <= StepRank(log[k + 1].op)
        /\ Cardinality(inputs) = Cardinality({log[k].guid : k \in inputs})
        /\ Cardinality(retries) = Cardinality({log[k].guid : k \in retries})
        /\ {log[k].guid : k \in inputs} = ConnectedGuids(polled)
        /\ {log[k].guid : k \in retries} = DisconnectedGuids(polled) \cup LostInTick(log)
        /\ TrackedGuids(m_devices') = TrackedGuids(polled)
        /\ \A i \in 1 .. Len(m_devices') :
              m_devices'[i].m_connected =
                  (m_devices'[i].guid \in {log[k].guid : k \in retries}
                      => m_devices'[i].guid \in reconnected)
      ]_vars

\* A tick rescanned, lost a device while polling it and tried to reconnect it
C19_Witness ==
    /\ lastOp = "ProcessAllDevices"
    /\ \E k \in 1 .. Len(steps) : steps[k].op = "ScanForDevices"
    /\ \E j, k \in 1 .. Len(steps) :
          /\ j < k
          /\ steps[j].op = "ProcessInput" /\ steps[j].result = "disconnected"
          /\ steps[k].op = "TryToReconnect" /\ steps[k].guid = steps[j].guid
          /\ steps[k].result = "connected"

(***************************************************************************)
(* C20. A controller that a tick's ProcessInput leaves disconnected is     *)
(* still tracked when the tick ends.  A controller leaves the registry     *)
(* only in the manager's Shutdown, or in an operation whose scan           *)
(* enumerated successfully and pruned it, and then it was disconnected     *)
(* already when that operation started.                                    *)
(***************************************************************************)
C20_RemovedOnlyByPrune ==
    [][/\ lastOp' = "ProcessAllDevices" => LostInTick(steps') \subseteq TrackedGuids(m_devices')
       /\ \A g \in TrackedGuids(m_devices) \ TrackedGuids(m_devices') :
             \/ lastOp' = "MultipleGamepadManager::Shutdown"
             \/ /\ \E k \in 1 .. Len(steps') : ScanSucceeded(steps'[k])
                /\ g \in DisconnectedGuids(m_devices)
      ]_vars

\* A tick lost a device, failed to reconnect it, and still tracks it
C20_Witness ==
    /\ lastOp = "ProcessAllDevices"
    /\ \E g \in LostInTick(steps) :
          /\ g \in DisconnectedGuids(m_devices)
          /\ \E k \in 1 .. Len(steps) :
                /\ steps[k].op = "TryToReconnect"
                /\ steps[k].guid = g
                /\ steps[k].result = "disconnected"

(***************************************************************************)
(* C22. Initialize of a manager that is not initialized returns failure    *)
(* exactly when DirectInput8Create failed, and the manager is initialized  *)
(* afterwards exactly when it returned success: so it succeeds when no     *)
(* device is attached and when every enumerated device fails to            *)
(* initialize.  ProcessAllDevices on a manager that is not initialized     *)
(* scans nothing, polls nothing, reconnects nothing and changes nothing.   *)
(***************************************************************************)
C22_InitializeFatalOnlyForContext ==
    [][/\ (lastOp' = "MultipleGamepadManager::Initialize" /\ ~mgr_initialized) =>
            /\ steps'[1].op = "DirectInput8Create"
            /\ steps'[Len(steps')].op = "Initialize"
            /\ (steps'[Len(steps')].result = "false") <=> FAILED(steps'[1].result)
            /\ mgr_initialized' = (steps'[Len(steps')].result = "true")
            /\ FAILED(steps'[1].result) =>
                  /\ Len(steps') = 2
                  /\ UNCHANGED <<m_devices, m_deviceIndexByGUID, m_lastScanTime>>
       /\ (lastOp' = "ProcessAllDevices" /\ ~mgr_initialized) =>
            /\ steps' = <<>>
            /\ UNCHANGED <<m_directInput, mgr_initialized, m_devices,
                           m_deviceIndexByGUID, m_lastScanTime>>
      ]_vars

\* Initialize succeeded although every attached device failed to initialize
C22_Witness ==
    /\ lastOp = "MultipleGamepadManager::Initialize"
    /\ steps[Len(steps)] = Returned("Initialize", "true")
    /\ mgr_initialized
    /\ m_devices = <<>>
    /\ \A g \in Guids : \E k \in 1 .. Len(steps) :
          /\ steps[k].op = "EnumDevicesCallback"
          /\ steps[k].guid = g
          /\ steps[k].result = "failed"

(***************************************************************************)
(* C21. In a ProcessAllDevices tick over several tracked controllers, each *)
(* controller ends as its own ProcessInput and TryToReconnect leave it,    *)
(* computed from its own state, its own sample and its own mapping alone:  *)
(* another controller's poll, loss or reconnection changes neither its     *)
(* connection state, nor its edge state, nor its mapping, and the events   *)
(* its poll injects carry the keys of its own mapping.                     *)
(***************************************************************************)
\* The steps of log with the given operation on the device with the given GUID
DeviceSteps(log, op, guid) == SelectSeq(log, LAMBDA e : e.op = op /\ e.guid = guid)

\* The device d after a tick alone in the registry, given the steps of the tick
AfterOwnTick(d, log) ==
    LET polls == DeviceSteps(log, "ProcessInput", d.guid)
        retries == DeviceSteps(log, "TryToReconnect", d.guid)
        polled == IF polls = <<>> THEN d
                  ELSE FleetProcessInput(<<d>>, 1, polls[1].in).devices[1]
    IN  IF retries = <<>> THEN polled
        ELSE [polled EXCEPT !.m_connected = ConnectedAfterReconnect(retries[1].in, FALSE)]

C21_ControllersIndependent ==
    [][(lastOp' = "ProcessAllDevices" /\ mgr_initialized) =>
        \A log \in {steps'} :
        \A i \in 1 .. Len(m_devices) :
        \A d \in {m_devices[i]} :
        \A polls \in {DeviceSteps(log, "ProcessInput", d.guid)} :
            /\ Len(polls) <= 1
            /\ Len(DeviceSteps(log, "TryToReconnect", d.guid)) <= 1
            /\ \A j \in 1 .. Len(m_devices') :
                  m_devices'[j].guid = d.guid => m_devices'[j] = AfterOwnTick(d, log)
            /\ polls # <<>> =>
                  /\ polls[1].injected = FleetProcessInput(<<d>>, 1, polls[1].in).log
                  /\ \A k \in 1 .. Len(polls[1].injected) :
                        \E e \in {polls[1].injected[k]} :
                          \E keys \in {MappedKeys(d.m_configManager, e.kind, e.index)} :
                            /\ keys # <<>>
                            /\ KeysOf(e) \in {keys, Reversed(keys)}
      ]_vars

\* A tick in which one controller was lost and stayed lost while another,
\* with another mapping, injected key events
C21_Witness ==
    /\ lastOp = "ProcessAllDevices"
    /\ \E i, j \in 1 .. Len(m_devices) :
          /\ m_devices[i].m_configManager # m_devices[j].m_configManager
          /\ ~m_devices[i].m_connected
          /\ DeviceSteps(steps, "ProcessInput", m_devices[i].guid) # <<>>
          /\ m_devices[j].m_connected
          /\ m_devices[j].m_prevButtons[0]
          /\ \E k \in 1 .. Len(steps) :
                /\ steps[k].op = "ProcessInput"
                /\ steps[k].guid = m_devices[j].guid
                /\ steps[k].injected # <<>>

(***************************************************************************)
(* C23. An Initialize of a constructed controller whose CreateDevice,      *)
(* SetDataFormat, SetCooperativeLevel and configuration load succeed       *)
(* returns true and leaves the controller initialized and connected,       *)
(* whatever Acquire returned; m_acquired is then the success of Acquire.   *)
(* The ProcessInput that follows an Initialize whose Acquire failed polls, *)
(* and calls Acquire if the Poll fails.                                    *)
(***************************************************************************)
C23_InitializeToleratesAcquireFailure ==
    [][/\ \A createHr, fmtHr, coopHr, propHr \in OkOrFail :
          \A outcome \in LoadOutcomes :
            \A acqHr \in AcquireResults :
              (/\ ~m_initialized
               /\ SUCCEEDED(createHr) /\ SUCCEEDED(fmtHr) /\ SUCCEEDED(coopHr)
               /\ LoadConfiguration(outcome).ok
               /\ Initialize(createHr, fmtHr, coopHr, propHr, outcome, acqHr))
                 => /\ lifecycle' = "live"
                    /\ m_initialized'
                    /\ m_connected'
                    /\ m_inputProcessor'
                    /\ m_acquired' = SUCCEEDED(acqHr)
                    /\ calls'[Len(calls')] = Call("Acquire", acqHr)
       /\ (/\ lastOp = "Initialize" /\ lifecycle = "live" /\ ~m_acquired
           /\ lastOp' = "ProcessInput")
            => /\ calls' # <<>>
               /\ calls'[1].call = "Poll"
               /\ FAILED(calls'[1].hr) => (Len(calls') >= 2 /\ calls'[2].call = "Acquire")
      ]_vars

\* Initialize returned true although its Acquire failed
C23_Witness ==
    /\ lastOp = "Initialize"
    /\ lifecycle = "live"
    /\ ResultOf(calls, "Acquire") \in {"DIERR_INPUTLOST", "DIERR_NOTACQUIRED", "E_FAIL"}
    /\ m_connected
    /\ ~m_acquired
    /\ m_device = "held"

(***************************************************************************)
(* C24. An Initialize or TryToReconnect that makes the controller          *)
(* connected has set the data format, the cooperative level and the range  *)
(* of each of the six axes, every one of these calls with success.         *)
(***************************************************************************)
C24_ConnectedOnlyWhenConfigured ==
    [][(lastOp' \in {"Initialize", "TryToReconnect"} /\ ~m_connected /\ m_connected') =>
          /\ ResultOf(calls', "SetDataFormat") = "S_OK"
          /\ ResultOf(calls', "SetCooperativeLevel") = "S_OK"
          /\ Len(SelectSeq(calls', LAMBDA c : c = Call("SetProperty", "S_OK"))) = 6
      ]_vars

(***************************************************************************)
(* C25. After a Shutdown, whatever the controller's state was, the         *)
(* controller is not connected and not acquired and holds no device        *)
(* handle, no key mapping and no input processor.                          *)
(***************************************************************************)
C25_ShutdownReleasesAll ==
    lastOp = "Shutdown" =>
        /\ ~m_connected
        /\ ~m_acquired
        /\ m_device = "null"
        /\ m_configManager = NoConfig
        /\ ~m_inputProcessor

(***************************************************************************)
(* C26. A Shutdown that follows a Shutdown makes no platform call (no      *)
(* Unacquire, no Release) and changes no member of the controller: the     *)
(* state after two Shutdown calls is the state after one.                  *)
(***************************************************************************)
C26_ShutdownIdempotent ==
    [][(lastOp = "Shutdown" /\ lastOp' = "Shutdown") =>
          /\ calls' = <<>>
          /\ injected' = <<>>
          /\ UNCHANGED <<lifecycle, m_device, devAcquired, m_connected, m_acquired,
                         m_initialized, m_configManager, m_inputProcessor, proc_configManager, m_currentState,
                         m_prevButtons, m_prevPOV, m_prevAxisDown, keysDown>>
      ]_vars

\* A Shutdown has released an acquired device: the Shutdown that follows finds
\* the controller shut
C26_Witness ==
    /\ lastOp = "Shutdown"
    /\ lifecycle = "shut"
    /\ calls = <<Call("Unacquire", "S_OK"), Call("Release", "S_OK")>>
    /\ ~m_initialized
    /\ ENABLED (Shutdown /\ calls' = <<>>)

(***************************************************************************)
(* C27. After LoadConfiguration replaced the configuration of an           *)
(* initialized controller, every frame that is processed reads the mapping *)
(* through a pointer to a live ConfigManager, and every event it injects   *)
(* carries the key sequence the new mapping gives its logical input.       *)
(***************************************************************************)
C27_ReloadedMappingUsed ==
    [][(lastOp' = "ProcessInput" /\ FrameProcessed(lastOp', calls')) =>
          /\ proc_configManager.target = "live"
          /\ proc_configManager.keys = m_configManager
          /\ \A k \in 1 .. Len(injected') :
                \E e \in {injected'[k]} :
                  \E keys \in {MappedKeys(m_configManager, e.kind, e.index)} :
                    /\ keys # <<>>
                    /\ KeysOf(e) \in {keys, Reversed(keys)}
      ]_vars

(***************************************************************************)
(* Vocabulary of the key-name properties.                                  *)
(***************************************************************************)
\* The name, lower-cased, is an entry of the static key table
InKeyTable(name) ==
    KEY_MAP([i \in 1 .. Len(name) |-> tolower(name[i])]) # NotFound

\* 0x or 0X, then one hexadecimal digit or more
IsHexLiteral(name) ==
    /\ Len(name) > 2
    /\ name[1] = "0"
    /\ name[2] \in {"x", "X"}
    /\ \A i \in 3 .. Len(name) : DigitValue(name[i], 16) >= 0

\* One decimal digit or more, after an optional minus sign
IsDecimalLiteral(name) ==
    LET digits == IF name # <<>> /\ name[1] = "-" THEN Tail(name) ELSE name
    IN  /\ digits # <<>>
        /\ \A i \in 1 .. Len(digits) : DigitValue(digits[i], 10) >= 0

\* The digits of a literal without sign, prefix and leading zeros
RECURSIVE Significant(_)
Significant(digits) ==
    IF digits # <<>> /\ Head(digits) = "0" THEN Significant(Tail(digits))
    ELSE digits

LiteralDigits(name) ==
    IF IsHexLiteral(name) THEN Significant(SubSeq(name, 3, Len(name)))
    ELSE IF name[1] = "-" THEN Significant(Tail(name))
    ELSE Significant(name)

\* The value of a short run of digits
RECURSIVE ValueOf(_, _)
ValueOf(digits, base) ==
    IF digits = <<>> THEN 0
    ELSE ValueOf(SubSeq(digits, 1, Len(digits) - 1), base) * base
         + DigitValue(digits[Len(digits)], base)

\* The key code the literal denotes when its value lies in [0, 0xFFFF],
\* NotFound for every other literal and for what is no literal
LiteralKeyCode(name) ==
    IF IsHexLiteral(name)
    THEN IF Len(LiteralDigits(name)) <= 4
         THEN ValueOf(LiteralDigits(name), 16) ELSE NotFound
    ELSE IF IsDecimalLiteral(name)
    THEN IF /\ Len(LiteralDigits(name)) <= 5
            /\ ValueOf(LiteralDigits(name), 10) <= 65535
            /\ (name[1] = "-" => LiteralDigits(name) = <<>>)
         THEN ValueOf(LiteralDigits(name), 10) ELSE NotFound
    ELSE NotFound

Resolves(resolvedKey) == resolvedKey # NotFound

\* The "+"-separated tokens of a debug string
RECURSIVE TokensFrom(_, _, _)
TokensFrom(str, i, token) ==
    IF i > Len(str) THEN <<token>>
    ELSE IF str[i] = "+" THEN <<token>> \o TokensFrom(str, i + 1, <<>>)
    ELSE TokensFrom(str, i + 1, Append(token, str[i]))

(***************************************************************************)
(* C28. For a name that is not in the key table, resolve returns the key   *)
(* code v exactly when the name is a 0x-prefixed hexadecimal literal or a  *)
(* plain decimal literal whose value v lies in [0, 0xFFFF]; every literal  *)
(* with a negative value or a value above 0xFFFF, however large, and every *)
(* other name resolves to NotFound.                                        *)
(* Violated: the 64-bit value is cut to 32 bits before the range test, so  *)
(* "4294967361" (2^32 + 65) resolves to key code 65.                       *)
(***************************************************************************)
C28_LiteralResolvesInRangeOnly ==
    lastOp = "resolveSequence" =>
        \A i \in 1 .. Len(keyNames) :
            ~InKeyTable(keyNames[i]) =>
                resolvedKeys[i] = LiteralKeyCode(keyNames[i])

(***************************************************************************)
(* C29. resolveSequence returns the codes of the names that resolve, in    *)
(* the order of the names: the per-name results with the unresolved ones   *)
(* deleted. It is never longer than its input, and an unresolvable name    *)
(* does not drop a resolvable neighbour.                                   *)
(***************************************************************************)
C29_ResolveSequenceFilters ==
    lastOp = "resolveSequence" =>
        /\ keyCodes = SelectSeq(resolvedKeys, Resolves)
        /\ Len(keyCodes) <= Len(keyNames)
        /\ \A i \in 1 .. Len(keyNames) :
               Resolves(resolvedKeys[i]) =>
                   \E k \in 1 .. Len(keyCodes) : keyCodes[k] = resolvedKeys[i]

\* An unresolvable name stands before a resolvable one, which is kept
C29_Witness ==
    /\ lastOp = "resolveSequence"
    /\ Len(keyNames) = 2
    /\ ~Resolves(resolvedKeys[1])
    /\ Resolves(resolvedKeys[2])
    /\ keyCodes = <<resolvedKeys[2]>>

(***************************************************************************)
(* C30. The debug string of a sequence resolveSequence produced, split at  *)
(* "+" and resolved token by token, gives the same codes in the same order.*)
(***************************************************************************)
C30_DebugStringRoundTrip ==
    lastOp = "vkSeq" =>
        resolveSequence(TokensFrom(vkSeq, 1, <<>>)) = keyCodes

\* A one-digit code padded to two digits, joined to a four-digit code
C30_Witness ==
    /\ lastOp = "vkSeq"
    /\ keyCodes = <<13, 65535>>
    /\ vkSeq = <<"0", "x", "0", "D", "+", "0", "x", "F", "F", "F", "F">>

(***************************************************************************)
(* C31. A ProcessInput frame whose Poll and re-Acquire both fail, or whose *)
(* GetDeviceState fails (also when that disconnects the controller),       *)
(* leaves the stored button bits and direction slots as they were and      *)
(* injects no key event; a frame changes them only when its poll and its   *)
(* state read both succeeded.                                              *)
(***************************************************************************)
FrameFailed(cs) ==
    \/ /\ ResultOf(cs, "Poll") \notin {"NONE", "S_OK"}
       /\ ResultOf(cs, "Acquire") \notin {"NONE", "S_OK"}
    \/ ResultOf(cs, "GetDeviceState") \notin {"NONE", "S_OK"}

C31_FailedFrameKeepsEdgeState ==
    [][lastOp' = "ProcessInput" =>
          /\ FrameFailed(calls') =>
                 /\ UNCHANGED <<m_prevButtons, m_prevPOV, m_prevAxisDown>>
                 /\ injected' = <<>>
          /\ <<m_prevButtons, m_prevPOV, m_prevAxisDown>>'
                 # <<m_prevButtons, m_prevPOV, m_prevAxisDown>>
               => FrameProcessed(lastOp', calls')
      ]_vars

\* The state read reported the device unplugged while a button was held:
\* the controller is disconnected and the button is still stored as down
C31_Witness ==
    /\ lastOp = "ProcessInput"
    /\ ResultOf(calls, "GetDeviceState") = "DIERR_UNPLUGGED"
    /\ ~m_connected
    /\ \E b \in DOMAIN m_prevButtons : m_prevButtons[b]
    /\ injected = <<>>

(***************************************************************************)
(* C32. Shutdown is terminal: once Shutdown has been called, no later      *)
(* ProcessInput or TryToReconnect makes the controller connected, gives it *)
(* a device handle or an acquisition, or injects a key event.              *)
(* Violated: TryToReconnect tests only m_connected, so after Shutdown it   *)
(* creates, configures and acquires the device and sets m_connected.       *)
(***************************************************************************)
C32_ShutdownTerminal ==
    [][(lifecycle = "shut" /\ lastOp' \in {"ProcessInput", "TryToReconnect"}) =>
          /\ ~m_connected'
          /\ m_device' = "held" => m_device = "held"
          /\ ~devAcquired'
          /\ injected' = <<>>
      ]_vars

(***************************************************************************)
(* C33. m_acquired is true whenever the handle is acquired on the          *)
(* platform, also after the re-Acquire inside PollAndGetState succeeded;   *)
(* so a lost state read and a Shutdown of an initialized controller call   *)
(* Unacquire whenever the handle is acquired at that moment.               *)
(* Violated: PollAndGetState calls Acquire on the handle itself and does   *)
(* not set m_acquired, and UnacquireDevice tests m_acquired.               *)
(***************************************************************************)
C33_AcquiredFlagTracksAcquisition ==
    /\ [](devAcquired => m_acquired)
    /\ [][/\ (/\ lastOp' = "ProcessInput"
              /\ StateReadLost(ResultOf(calls', "GetDeviceState"))
              /\ (devAcquired \/ ResultOf(calls', "Acquire") = "S_OK"))
             => ResultOf(calls', "Unacquire") # "NONE"
          /\ (lastOp' = "Shutdown" /\ m_initialized /\ devAcquired)
             => ResultOf(calls', "Unacquire") # "NONE"
         ]_vars

(***************************************************************************)
(* C34. The tracked controllers have pairwise distinct device GUIDs at     *)
(* every point, whatever scans, lost polls, reconnections and prunes have  *)
(* happened: no device is tracked twice.                                   *)
(***************************************************************************)
C34_DistinctGuids ==
    \A i, j \in 1 .. Len(m_devices) :
        m_devices[i].guid = m_devices[j].guid => i = j

\* A scan met a device it already tracked, next to a second tracked device
C34_Witness ==
    /\ lastOp = "ScanForDevices"
    /\ Len(m_devices) = 2
    /\ \E k \in 1 .. Len(steps) :
           steps[k].op = "EnumDevicesCallback" /\ steps[k].result = "managed"

(***************************************************************************)
(* C35. When ScanForDevices returns, every device its enumeration reported *)
(* as attached is tracked, unless its new controller failed to initialize; *)
(* this includes a device whose controller was tracked and disconnected    *)
(* when the scan started.                                                  *)
(* Violated: the callback skips a device that is already tracked, and the  *)
(* prune that follows removes its disconnected controller.                 *)
(***************************************************************************)
C35_AttachedDevicesTracked ==
    lastOp = "ScanForDevices" =>
        \A k \in 1 .. Len(steps) :
            (/\ steps[k].op = "EnumDevicesCallback"
             /\ steps[k].result \in {"initialized", "managed"})
                => steps[k].guid \in TrackedGuids(m_devices)

(***************************************************************************)
(* C36. A controller that goes away leaves no synthetic key pressed: once  *)
(* it is shut down, every key sequence it pressed has been released, so    *)
(* the inputs still pressed belong to a controller that is in use.         *)
(* Violated: Shutdown destroys the InputProcessor without injecting the    *)
(* releases of the sequences that are down.                                *)
(***************************************************************************)
C36_NoKeyLeftPressed ==
    keysDown # {} => lifecycle = "live"

(***************************************************************************)
(* C37. For every mapped button of one controller, through processed and   *)
(* failed frames, disconnections and reconnections, the events injected    *)
(* for its key sequence alternate PRESS, RELEASE, PRESS, ... from a PRESS: *)
(* a frame injects at most one event for the button, a PRESS only when its *)
(* last event was not a PRESS and a RELEASE only when it was.              *)
(***************************************************************************)
C37_ButtonEventsAlternate ==
    [][\A i \in ButtonIdx :
          LET ev == EventsOf(injected', "Button", i) IN
          /\ Len(ev) <= 1
          /\ ev # <<>> => (ev[1].down = (<<"Button", i>> \notin keysDown))
      ]_vars

\* A reconnection happened while a button's key sequence was pressed, and
\* the button is still stored as down
C37_Witness ==
    /\ lastOp = "TryToReconnect"
    /\ m_connected
    /\ calls # <<>>
    /\ lifecycle = "live"
    /\ \E i \in ButtonIdx : <<"Button", i>> \in keysDown /\ m_prevButtons[i]

(***************************************************************************)
(* C38. A ProcessAllDevices tick of an initialized manager rescans exactly *)
(* when strictly more than 5000 ms of the 32-bit tick counter have passed  *)
(* since m_lastScanTime, the difference taken modulo 2^32, so also when    *)
(* the counter wrapped in between; m_lastScanTime is the tick value of the *)
(* last scan that completed.                                               *)
(***************************************************************************)
\* The milliseconds from tick value from to tick value to are more than the
\* interval; the two are less than 2^31 apart as integers, and a negative
\* difference is a counter that ran almost once round
MoreThanIntervalApart(from, to) ==
    (to - from > SCAN_INTERVAL_MS) \/ (to - from < 0)

Rescanned(log) == StepsOf(log, "ScanForDevices") # {}

C38_RescanAfterInterval ==
    [][lastOp' = "ProcessAllDevices" =>
          /\ Rescanned(steps') =
                 (mgr_initialized /\ MoreThanIntervalApart(m_lastScanTime, tickCount))
          /\ m_lastScanTime' =
                 IF \E k \in 1 .. Len(steps') : ScanSucceeded(steps'[k])
                 THEN tickCount ELSE m_lastScanTime
      ]_vars

\* The scan before completed at 0xFFFFFFFF: this tick at 5000, which is
\* 5001 ms later across the wrap, rescanned
C38_Witness ==
    /\ lastOp = "ProcessAllDevices"
    /\ tickCount = 5000
    /\ m_lastScanTime = 5000
    /\ Rescanned(steps)

(***************************************************************************)
(* C39  With several writers on one DisplayBuffer, every mutation runs     *)
(* while its thread holds m_mutex: at most one thread is past a lock_guard,*)
(* every writer inside a call is that thread, and the lines of one         *)
(* AddGamepadState block stand together in m_lines, in order, with no line *)
(* of another call between them.                                           *)
(***************************************************************************)
InCall(t) == threads[t].op # "none"

IsStateLine(line) == line.op = "AddGamepadState"

\* Line i + 1 continues the block of line i
Continues(lines, i) ==
    /\ lines[i + 1].op = lines[i].op
    /\ lines[i + 1].by = lines[i].by
    /\ lines[i + 1].part = lines[i].part + 1

BlocksContiguous(lines) ==
    \A i \in 1 .. (Len(lines) - 1) :
        /\ (IsStateLine(lines[i]) /\ lines[i].part < Len(GamepadStateLines(lines[i].by)))
               => Continues(lines, i)
        /\ (IsStateLine(lines[i + 1]) /\ lines[i + 1].part > 1)
               => Continues(lines, i)

C39_MutationsHoldMutex ==
    /\ Cardinality(m_mutex) <= 1
    /\ \A t \in Writers : InCall(t) => t \in m_mutex
    /\ BlocksContiguous(m_lines)

\* A writer, still inside its call, has added a whole AddGamepadState block
\* right after a line of another writer
C39_Witness ==
    \E i \in 1 .. Len(m_lines) :
        /\ i > 1
        /\ IsStateLine(m_lines[i])
        /\ m_lines[i].part = 1
        /\ m_lines[i - 1].by # m_lines[i].by
        /\ Len(m_lines) >= i + Len(GamepadStateLines(m_lines[i].by)) - 1
        /\ m_mutex = {m_lines[i].by}

(***************************************************************************)
(* C40  A thread that reads the lines it obtained from GetLines never      *)
(* observes m_lines while a writer's AddLine, Clear or trimming modifies   *)
(* it: between GetLines and the end of the read, no statement of a writer  *)
(* changes m_lines.                                                        *)
(***************************************************************************)
Reading == threads[PaintThread].op = "GetLines"

C40_ReaderNeverSeesModification ==
    [][Reading => m_lines' = m_lines]_vars
====
